---------------------------- MODULE Spec2Model ----------------------------
(***************************************************************************)
(* A model of otti, a one-time-password manager: the OTP generator         *)
(* (otti-gen), the encrypted native store (otti-store), the three backup   *)
(* format adapters (provider-aegis, provider-andotp, provider-authpro) and *)
(* the show command and TUI loop of the binary (src/main.rs).              *)
(*                                                                         *)
(* Each subsystem has its own variables, initial predicate and next-state  *)
(* relation; a subsystem's specification keeps the other subsystems idle.  *)
(*   SpecGen      the generator, called on drawn inputs                    *)
(*   SpecStore    seal / open on the store file, and foreign writes to it  *)
(*   SpecAdapter  load / save / load of a backup through one adapter       *)
(*   SpecTui      the show command and the TUI loop over opened accounts   *)
(*   SpecUrl      the otpauth URI parser on drawn texts                    *)
(*   SpecKey      the lives of secret keys and of their buffers            *)
(*   SpecAead     seal and open of the store's aead module (aead.rs)       *)
(*   SpecImport   the import command, step by step                         *)
(*   SpecChan     the listener thread, its channel and the TUI loop        *)
(*                                                                         *)
(* Primitives of external crates are stand-ins with the algebra the crates *)
(* document: HMAC is a deterministic mixing function of (digest, key,      *)
(* message); a derived key is the tuple of what it was derived from; an    *)
(* AEAD blob carries the key and nonce it was sealed under and opens only  *)
(* under the same ones.                                                    *)
(***************************************************************************)
EXTENDS Integers, Sequences, FiniteSets, TLC

VARIABLES
    genCall,      \* otti-gen: the last call and its arguments
    genRet,       \* otti-gen: what that call returned (or how it aborted)
    genAgain,     \* otti-gen: a second call on the same inputs, and its clock
    storeFile,    \* otti-store: the store file on disk (or that there is none)
    storeOrigin,  \* otti-store: who wrote the file last, and from what
    lastSeal,     \* otti-store: the last seal call and its result
    lastOpen,     \* otti-store: the last open call, its result and its steps
    adCall,       \* adapters: the adapter, the backup file and its password
    adLoaded,     \* adapters: what loading the backup returned
    adSaved,      \* adapters: the password and the result of saving
    adReloaded,   \* adapters: the password and the result of loading again
    tui,          \* otti: the interface (accounts, list state, dialog, clipboard)
    shown,        \* otti show: what the command printed
    urlCall,      \* otti-core url: the text handed to the parser, by its parts
    urlRet,       \* otti-core url: what parsing returned
    urlCode,      \* otti-core url: the code generated for the parsed account
    keyBuf,       \* otti-core key: the buffers of keys, their lives and bytes
    keySeen,      \* otti-core key: the last read of a key's bytes
    aeadCall,     \* otti-store aead.rs: the key and the data handed to seal
    aeadBlob,     \* otti-store aead.rs: what seal returned
    aeadOpened,   \* otti-store aead.rs: the last open, its input and result
    imp,          \* otti import: where the command is, the files, what it said
    termQueue,    \* otti: the terminal events not yet read by the listener
    listener,     \* otti: the listener thread, the event it holds, its reads
    mainLoop      \* otti: the loop's end of the channel and what it received

genVars == <<genCall, genRet, genAgain>>

storeVars == <<storeFile, storeOrigin, lastSeal, lastOpen>>

adVars == <<adCall, adLoaded, adSaved, adReloaded>>
tuiVars == <<tui, shown>>
urlVars == <<urlCall, urlRet, urlCode>>
keyVars == <<keyBuf, keySeen>>
aeadVars == <<aeadCall, aeadBlob, aeadOpened>>
impVars == <<imp>>
chanVars == <<termQueue, listener, mainLoop>>
moreVars == <<keyVars, aeadVars, impVars, chanVars>>
vars == <<genVars, storeVars, adVars, tuiVars, urlVars, moreVars>>

\* A step of one subsystem leaves the others as they are.
GenOnly == UNCHANGED <<storeVars, adVars, tuiVars, urlVars, moreVars>>
StoreOnly == UNCHANGED <<genVars, adVars, tuiVars, urlVars, moreVars>>
AdOnly == UNCHANGED <<genVars, storeVars, tuiVars, urlVars, moreVars>>
TuiOnly == UNCHANGED <<genVars, storeVars, adVars, urlVars, moreVars>>
UrlOnly == UNCHANGED <<genVars, storeVars, adVars, tuiVars, moreVars>>
MainOnly == UNCHANGED <<genVars, storeVars, adVars, tuiVars, urlVars>>
KeyOnly == MainOnly /\ UNCHANGED <<aeadVars, impVars, chanVars>>
AeadOnly == MainOnly /\ UNCHANGED <<keyVars, impVars, chanVars>>
ImpOnly == MainOnly /\ UNCHANGED <<keyVars, aeadVars, chanVars>>
ChanOnly == MainOnly /\ UNCHANGED <<keyVars, aeadVars, impVars>>

-----------------------------------------------------------------------------
(* Generic helpers                                                         *)

RECURSIVE SumSeq(_)
SumSeq(s) == IF s = <<>> THEN 0 ELSE Head(s) + SumSeq(Tail(s))

Max(a, b) == IF a >= b THEN a ELSE b

None == [some |-> FALSE]
Some(v) == [some |-> TRUE, val |-> v]

Ok(v) == [kind |-> "ok", val |-> v]
Err(e) == [kind |-> "err", err |-> e]
Panic(why) == [kind |-> "panic", why |-> why]

-----------------------------------------------------------------------------
(* otti-core: the account model                                            *)

Algorithms == {"Sha1", "Sha256", "Sha512"}

Hotp(counter) == [type |-> "Hotp", counter |-> counter]
Totp(window) == [type |-> "Totp", window |-> window]
Steam(period) == [type |-> "Steam", period |-> period]

-----------------------------------------------------------------------------
(* otti-gen                                                                *)

DEFAULT_DIGITS == 6
DEFAULT_STEAM_DIGITS == 5

STEAM_CHARS ==
    << "2", "3", "4", "5", "6", "7", "8", "9", "B", "C", "D", "F", "G", "H",
       "J", "K", "M", "N", "P", "Q", "R", "T", "V", "W", "X", "Y" >>

DecimalChars == << "0", "1", "2", "3", "4", "5", "6", "7", "8", "9" >>

\* u32::to_string: the decimal digits, most significant first, no padding.
RECURSIVE U32ToString(_)
U32ToString(n) ==
    IF n < 10 THEN << DecimalChars[n + 1] >>
    ELSE U32ToString(n \div 10) \o << DecimalChars[(n % 10) + 1] >>

\* u64::to_be_bytes, for the low n bytes.
RECURSIVE ToBeBytes(_, _)
ToBeBytes(c, n) ==
    IF n = 0 THEN <<>> ELSE ToBeBytes(c \div 256, n - 1) \o << c % 256 >>

\* Output length in bytes of each digest.
OutputSize(alg) ==
    CASE alg = "Sha1" -> 20
      [] alg = "Sha256" -> 32
      [] alg = "Sha512" -> 64

AlgSeed(alg) ==
    CASE alg = "Sha1" -> 17
      [] alg = "Sha256" -> 101
      [] alg = "Sha512" -> 203

\* Stand-in for Hmac<D>: a deterministic function of digest, key and message,
\* of the digest's output length.  Any key length is accepted.
Hmac(alg, key, msg) ==
    [i \in 1..OutputSize(alg) |->
        (AlgSeed(alg) + 7 * SumSeq(key) + 31 * SumSeq(msg)
            + i * (13 + 5 * SumSeq(msg) + 3 * Len(key))) % 256]

\* mac: the first 20 bytes of HMAC(key, counter as 8 big-endian bytes).
mac(alg, key, counter) == SubSeq(Hmac(alg, key, ToBeBytes(counter, 8)), 1, 20)

\* A u32 as two 16-bit halves: TLC's integers end at 2^31 - 1.
U32(hi, lo) == [hi |-> hi, lo |-> lo]

\* 10_u32.pow(digits): the wrapped product and whether it overflowed 32 bits,
\* by repeated wrapping multiplication.  10^32 is a multiple of 2^32, so from
\* there on every product is zero.
RECURSIVE Pow10Acc(_, _, _, _)
Pow10Acc(hi, lo, overflow, left) ==
    IF left = 0 THEN [v |-> U32(hi, lo), overflow |-> overflow]
    ELSE Pow10Acc((hi * 10 + ((lo * 10) \div 65536)) % 65536,
                  (lo * 10) % 65536,
                  overflow \/ hi * 10 + ((lo * 10) \div 65536) >= 65536,
                  left - 1)

Pow10(exp) ==
    IF exp > 32 THEN [v |-> U32(0, 0), overflow |-> TRUE]
    ELSE Pow10Acc(0, 1, FALSE, exp)

\* A digit() that takes the offset from the high nibble of the last byte.
DigitOffsetHighNibble(bytes) == bytes[19 + 1] \div 16

\* The bytes of the MAC that digit() indexes (zero-based, as in the source).
DigitOffset(bytes) == bytes[19 + 1] % 16
DigitReads(bytes) == { DigitOffset(bytes) + k : k \in 0..3 }

\* bin_code: big-endian u32 at the offset with the top bit cleared.
BinCode(bytes) ==
    LET o == DigitOffset(bytes)
    IN  (bytes[o + 1] % 128) * 16777216 + bytes[o + 2] * 65536
            + bytes[o + 3] * 256 + bytes[o + 4]

\* digit: bin_code % 10^digits.  With overflow checks on (a debug build) pow
\* aborts once 10^digits passes 32 bits; without them it wraps, and the
\* remainder aborts when the wrapped power is zero.
digit(bytes, digits, build) ==
    LET p == Pow10(digits)
        code == BinCode(bytes)
    IN  IF p.overflow /\ build = "debug" THEN Panic("pow overflow")
        ELSE IF p.v.hi = 0 /\ p.v.lo = 0 THEN Panic("remainder by zero")
        ELSE IF p.v.hi >= 32768 THEN Ok(code)
        ELSE Ok(code % (p.v.hi * 65536 + p.v.lo))

\* A generate_hotp that steps the counter before using it.
generate_hotp_stepped(alg, key, counter, digits, build) ==
    digit(mac(alg, key, counter + 1), digits, build)

generate_hotp(alg, key, counter, digits, build) ==
    digit(mac(alg, key, counter), digits, build)

\* A generate_totp that takes the seconds themselves for the counter.
generate_totp_unwindowed(alg, key, window, digits, clock, build) ==
    IF clock < 0 THEN Err("Time")
    ELSE IF window = 0 THEN Panic("division by zero")
    ELSE generate_hotp(alg, key, clock, digits, build)

\* clock: the seconds since the epoch, or -1 when the system clock is before it.
generate_totp(alg, key, window, digits, clock, build) ==
    IF clock < 0 THEN Err("Time")
    ELSE IF window = 0 THEN Panic("division by zero")
    ELSE generate_hotp(alg, key, clock \div window, digits, build)

RECURSIVE SteamLoop(_, _)
SteamLoop(rest, left) ==
    IF left = 0 THEN <<>>
    ELSE << STEAM_CHARS[(rest % Len(STEAM_CHARS)) + 1] >>
            \o SteamLoop(rest \div Len(STEAM_CHARS), left - 1)

generate_steam(alg, key, period, digits, clock, build) ==
    LET r == generate_totp(alg, key, period, digits, clock, build)
    IN  IF r.kind = "ok" THEN Ok(SteamLoop(r.val, digits)) ELSE r

OtpCode(code, digits) == [code |-> code, digits |-> digits]

\* generate: digits is None or Some(d).
generate(alg, key, otp, digits, clock, build) ==
    LET d == IF digits.some THEN digits.val
             ELSE IF otp.type = "Steam" THEN DEFAULT_STEAM_DIGITS
             ELSE DEFAULT_DIGITS
        r == CASE otp.type = "Hotp" ->
                    LET h == generate_hotp(alg, key, otp.counter, d, build)
                    IN  IF h.kind = "ok" THEN Ok(U32ToString(h.val)) ELSE h
               [] otp.type = "Totp" ->
                    LET t == generate_totp(alg, key, otp.window, d, clock, build)
                    IN  IF t.kind = "ok" THEN Ok(U32ToString(t.val)) ELSE t
               [] otp.type = "Steam" ->
                    generate_steam(alg, key, otp.period, d, clock, build)
    IN  IF r.kind = "ok" THEN Ok(OtpCode(r.val, d)) ELSE r

Zeros(n) == [i \in 1..n |-> "0"]

\* A Display that fills on the right ("{:0<1$}").
DisplayFillRight(c) == c.code \o Zeros(c.digits - Len(c.code))

\* Display for OtpCode: "{:0>1$}", left-padded with '0' to digits characters.
Display(c) == Zeros(c.digits - Len(c.code)) \o c.code

-----------------------------------------------------------------------------
(* otti-core: accounts                                                     *)

\* BTreeMap<String, Vec<u8>>: the entries as <<key, bytes>> in key order.
NoExtras == <<>>

Account(label, secret, digits, otp, algorithm, issuer, tags, extras) ==
    [label |-> label, secret |-> secret, digits |-> digits, otp |-> otp,
     algorithm |-> algorithm, issuer |-> issuer, meta |-> [tags |-> tags],
     extras |-> extras]

AccTotp ==
    Account("me", <<72, 101>>, 6, Totp(30), "Sha1", Some("Test This"), <<>>,
            NoExtras)

AccHotp ==
    Account("Entry 1", <<0, 255, 1>>, 8, Hotp(1), "Sha256", None,
            << "Tag 1", "Tag 2" >>, << <<"aegis/note", <<116>> >> >>)

AccSteam ==
    Account("", <<>>, 5, Steam(30), "Sha512", Some(""), << "Tag 1" >>,
            << <<"aegis/icon", <<1, 2>> >>, <<"aegis/note", <<116>> >> >>)

AccountPool == { AccTotp, AccHotp, AccSteam }

MaxAccounts == 2    \* account lists drawn: every list of 0..MaxAccounts accounts

AccountLists ==
    UNION { [1..n -> AccountPool] : n \in 0..MaxAccounts }

-----------------------------------------------------------------------------
(* otti-store: serialisation, compression, key derivation, sealing         *)

MsgNil == [t |-> "nil"]
MsgUint(n) == [t |-> "uint", v |-> n]
MsgStr(str) == [t |-> "str", v |-> str]
MsgBin(bytes) == [t |-> "bin", v |-> bytes]
MsgArr(items) == [t |-> "arr", v |-> items]
MsgMap(pairs) == [t |-> "map", v |-> pairs]

\* rmp_serde writes a struct as the array of its fields, an enum variant as
\* a one-entry map from the variant's name to its fields, a unit variant as
\* its name, an Option as nil or the value, Vec<u8> as an array of integers
\* and Key (serialize_bytes) as bin.
EncodeOtp(otp) ==
    MsgMap(<< << MsgStr(otp.type),
                 MsgArr(<< MsgUint(CASE otp.type = "Hotp" -> otp.counter
                                     [] otp.type = "Totp" -> otp.window
                                     [] otp.type = "Steam" -> otp.period) >>) >> >>)

EncodeByteVec(bytes) == MsgArr([i \in 1..Len(bytes) |-> MsgUint(bytes[i])])

EncodeAccount(a) ==
    MsgArr(<< MsgStr(a.label),
              MsgBin(a.secret),
              MsgUint(a.digits),
              EncodeOtp(a.otp),
              MsgStr(a.algorithm),
              IF a.issuer.some THEN MsgStr(a.issuer.val) ELSE MsgNil,
              MsgArr(<< MsgArr([i \in 1..Len(a.meta.tags) |->
                                   MsgStr(a.meta.tags[i])]) >>),
              MsgMap([i \in 1..Len(a.extras) |->
                        << MsgStr(a.extras[i][1]),
                           EncodeByteVec(a.extras[i][2]) >>]) >>)

\* rmp_serde::to_vec(accounts)
EncodeAccounts(accounts) ==
    MsgArr([i \in 1..Len(accounts) |-> EncodeAccount(accounts[i])])

DecodeOtp(m) ==
    LET name == m.v[1][1].v
        n == m.v[1][2].v[1].v
    IN  CASE name = "Hotp" -> Hotp(n)
          [] name = "Totp" -> Totp(n)
          [] name = "Steam" -> Steam(n)

DecodeByteVec(m) == [i \in 1..Len(m.v) |-> m.v[i].v]

\* A Deserialize of Account that never reads extras.
DecodeAccountNoExtras(m) ==
    LET f == m.v
    IN  Account(f[1].v, f[2].v, f[3].v, DecodeOtp(f[4]), f[5].v,
                IF f[6].t = "nil" THEN None ELSE Some(f[6].v),
                [i \in 1..Len(f[7].v[1].v) |-> f[7].v[1].v[i].v],
                NoExtras)

\* The derived Deserialize of Account from an array: fields in order, extras
\* defaulting to the empty map when the array ends before it.
DecodeAccount(m) ==
    LET f == m.v
    IN  Account(f[1].v, f[2].v, f[3].v, DecodeOtp(f[4]), f[5].v,
                IF f[6].t = "nil" THEN None ELSE Some(f[6].v),
                [i \in 1..Len(f[7].v[1].v) |-> f[7].v[1].v[i].v],
                IF Len(f) < 8 THEN NoExtras
                ELSE [i \in 1..Len(f[8].v) |->
                        << f[8].v[i][1].v, DecodeByteVec(f[8].v[i][2]) >>])

\* Whether bytes decode as Vec<Account>: an array of account arrays.
IsAccountsEncoding(m) ==
    /\ m.t = "arr"
    /\ \A i \in 1..Len(m.v) : m.v[i].t = "arr" /\ Len(m.v[i].v) \in {7, 8}

\* rmp_serde::from_slice::<Vec<Account>>
DecodeAccounts(m) ==
    IF IsAccountsEncoding(m)
    THEN Ok([i \in 1..Len(m.v) |-> DecodeAccount(m.v[i])])
    ELSE Err([tag |-> "Decode"])

\* Bytes that are not the encoding of an account list.
MsgGarbage == MsgArr(<< MsgNil >>)

\* compress / decompress: a Zlib stream around the data; decompressing
\* anything else fails in the decoder (an I/O error).
compress(data) == [zlib |-> TRUE, data |-> data]
NotZlib == [zlib |-> FALSE]

decompress(data) ==
    IF data.zlib THEN Ok(data.data) ELSE Err([tag |-> "Io"])

\* Password::from_slice rejects the empty password.
PasswordFromSlice(password) ==
    IF password = "" THEN Err([tag |-> "Crypto"]) ELSE Ok(password)

\* Salt::from_slice rejects the empty salt.  A salt is its length and an
\* identifier standing for its bytes.
SaltFromSlice(salt) ==
    IF salt.len = 0 THEN Err([tag |-> "Crypto"]) ELSE Ok(salt)

\* kdf::derive_key (Argon2i): rejects fewer than 3 iterations, less than 8
\* KiB of memory and a salt under 8 bytes; the key is what it was derived from.
derive_key(password, salt, iterations, memory) ==
    IF iterations < 3 \/ memory < 8 \/ salt.len < 8
    THEN Err([tag |-> "Crypto"])
    ELSE Ok([password |-> password, salt |-> salt,
             iterations |-> iterations, memory |-> memory])

NONCE_SIZE == 24
TAG_SIZE == 16

\* The length in bytes of compressed data (an abstract, positive size).
DataLen(data) == 8

\* orion::aead::seal, which lib.rs imports (the crate declares no module
\* of its own for it): nonce || ciphertext || tag under the key, for a fresh
\* nonce.
aead_seal(key, data, nonce) ==
    [nonce |-> nonce, key |-> key, data |-> data, intact |-> TRUE,
     len |-> NONCE_SIZE + DataLen(data) + TAG_SIZE]

\* orion::aead::open: fails on a blob no longer than nonce + tag and on a
\* tag that does not verify under the key (another key, or altered bytes).
aead_open(key, blob) ==
    IF blob.len <= NONCE_SIZE + TAG_SIZE THEN Err([tag |-> "Aead"])
    ELSE IF ~blob.intact \/ blob.key # key THEN Err([tag |-> "Aead"])
    ELSE Ok(blob.data)

SEAL_ITERATIONS == 3
SEAL_MEMORY == 65536
SALT_LEN == 16

\* encrypt: a random 16-byte salt, Argon2i with 3 iterations and 1 << 16 KiB.
encrypt(data, password, saltId, nonce) ==
    LET pw == PasswordFromSlice(password)
        salt == [len |-> SALT_LEN, id |-> saltId]
        key == derive_key(password, salt, SEAL_ITERATIONS, SEAL_MEMORY)
    IN  IF pw.kind = "err" THEN pw
        ELSE IF key.kind = "err" THEN key
        ELSE Ok([salt |-> salt, iterations |-> SEAL_ITERATIONS,
                 memory |-> SEAL_MEMORY,
                 data |-> aead_seal(key.val, data, nonce)])

\* A decrypt that reports every failure as InvalidPassword.
decryptAllInvalid(encrypted, password) ==
    LET pw == PasswordFromSlice(password)
        salt == SaltFromSlice(encrypted.salt)
        key == derive_key(password, encrypted.salt, encrypted.iterations,
                          encrypted.memory)
        opened == aead_open(key.val, encrypted.data)
    IN  IF pw.kind = "err" \/ salt.kind = "err" \/ key.kind = "err"
        THEN [ret |-> Err([tag |-> "InvalidPassword"]), steps |-> <<>>]
        ELSE IF opened.kind = "err"
        THEN [ret |-> Err([tag |-> "InvalidPassword"]),
              steps |-> << "kdf", "aead" >>]
        ELSE [ret |-> opened, steps |-> << "kdf", "aead" >>]

\* decrypt: the result, and which of key derivation and AEAD opening ran.
decrypt(encrypted, password) ==
    LET pw == PasswordFromSlice(password)
        salt == SaltFromSlice(encrypted.salt)
        key == derive_key(password, encrypted.salt, encrypted.iterations,
                          encrypted.memory)
        opened == aead_open(key.val, encrypted.data)
    IN  IF pw.kind = "err" THEN [ret |-> pw, steps |-> <<>>]
        ELSE IF salt.kind = "err" THEN [ret |-> salt, steps |-> <<>>]
        ELSE IF key.kind = "err" THEN [ret |-> key, steps |-> << "kdf" >>]
        ELSE IF opened.kind = "err"
        THEN [ret |-> Err([tag |-> "InvalidPassword"]),
              steps |-> << "kdf", "aead" >>]
        ELSE [ret |-> opened, steps |-> << "kdf", "aead" >>]

\* A read_version that reads the header big-endian.
read_version_be(header) ==
    IF Len(header) < 2 THEN Err([tag |-> "Io"])
    ELSE LET value == header[1] * 256 + header[2]
         IN  IF value = 1 THEN Ok("V1")
             ELSE Err([tag |-> "UnknownVersion", v |-> value])

\* read_version: two bytes, little-endian, through Version::try_from.
read_version(header) ==
    IF Len(header) < 2 THEN Err([tag |-> "Io"])
    ELSE LET value == header[1] + header[2] * 256
         IN  IF value = 1 THEN Ok("V1")
             ELSE Err([tag |-> "UnknownVersion", v |-> value])

\* write_version: u16::from(Version::V1).to_le_bytes()
write_version == << 1 % 256, 1 \div 256 >>

NoFile == [exists |-> FALSE]

\* open: the result and the steps that ran, in order.
open(file, password) ==
    IF ~file.exists THEN [ret |-> Err([tag |-> "Io"]), steps |-> <<>>]
    ELSE
    LET version == read_version(file.header)
        dec == decrypt(file.body.record, password)
        unz == decompress(dec.ret.val)
    IN  IF version.kind = "err"
        THEN [ret |-> version, steps |-> << "read_version" >>]
        ELSE IF version.val # "V1"
        THEN [ret |-> Err([tag |-> "UnsupportedVersion", v |-> version.val]),
              steps |-> << "read_version" >>]
        ELSE IF ~file.body.msgpack
        THEN [ret |-> Err([tag |-> "Decode"]),
              steps |-> << "read_version", "decode_record" >>]
        ELSE IF dec.ret.kind = "err"
        THEN [ret |-> dec.ret,
              steps |-> << "read_version", "decode_record" >> \o dec.steps]
        ELSE IF unz.kind = "err"
        THEN [ret |-> unz,
              steps |-> << "read_version", "decode_record" >> \o dec.steps
                            \o << "decompress" >>]
        ELSE [ret |-> DecodeAccounts(unz.val),
              steps |-> << "read_version", "decode_record" >> \o dec.steps
                            \o << "decompress", "decode_accounts" >>]

\* seal: the file written, or the error that left the disk untouched.
seal(accounts, password, saltId, nonce) ==
    LET data == compress(EncodeAccounts(accounts))
        encrypted == encrypt(data, password, saltId, nonce)
    IN  IF encrypted.kind = "err" THEN encrypted
        ELSE Ok([exists |-> TRUE, header |-> write_version,
                 body |-> [msgpack |-> TRUE, record |-> encrypted.val]])

-----------------------------------------------------------------------------
(* Text encodings of the backup formats: Base32 without padding (secrets)  *)
(* and standard Base64 with padding (icons)                                *)

BASE32_NOPAD ==
    << "A", "B", "C", "D", "E", "F", "G", "H", "I", "J", "K", "L", "M",
       "N", "O", "P", "Q", "R", "S", "T", "U", "V", "W", "X", "Y", "Z",
       "2", "3", "4", "5", "6", "7" >>

BASE64_STANDARD ==
    << "A", "B", "C", "D", "E", "F", "G", "H", "I", "J", "K", "L", "M",
       "N", "O", "P", "Q", "R", "S", "T", "U", "V", "W", "X", "Y", "Z",
       "a", "b", "c", "d", "e", "f", "g", "h", "i", "j", "k", "l", "m",
       "n", "o", "p", "q", "r", "s", "t", "u", "v", "w", "x", "y", "z",
       "0", "1", "2", "3", "4", "5", "6", "7", "8", "9", "+", "/" >>

\* Bit i (from 0, most significant first) of a byte string; 0 past its end.
BitAt(bytes, i) ==
    IF i \div 8 >= Len(bytes) THEN 0
    ELSE (bytes[(i \div 8) + 1] \div (2 ^ (7 - (i % 8)))) % 2

\* The k-th (from 0) group of w bits of a byte string, as a number.
BitGroup(bytes, w, k) ==
    SumSeq([j \in 1..w |-> BitAt(bytes, k * w + j - 1) * (2 ^ (w - j))])

CeilDiv(a, b) == (a + b - 1) \div b

\* One symbol of the alphabet for every started group of w bits.
EncodeSymbols(bytes, w, alphabet) ==
    [k \in 1..CeilDiv(8 * Len(bytes), w) |->
        alphabet[BitGroup(bytes, w, k - 1) + 1]]

\* The value of a symbol, or -1 for a character outside the alphabet.
IndexOf(alphabet, c) ==
    IF \E i \in 1..Len(alphabet) : alphabet[i] = c
    THEN (CHOOSE i \in 1..Len(alphabet) : alphabet[i] = c) - 1
    ELSE -1

\* Bit i (from 0) of a string of w-bit symbol values.
SymBitAt(vals, w, i) ==
    (vals[(i \div w) + 1] \div (2 ^ (w - 1 - (i % w)))) % 2

\* Decoding rejects a character outside the alphabet, a length that leaves a
\* whole symbol without a byte, and trailing bits that are not zero.
DecodeSymbols(text, w, alphabet) ==
    LET vals == [k \in 1..Len(text) |-> IndexOf(alphabet, text[k])]
        nbits == w * Len(text)
        n == nbits \div 8
    IN  IF \E k \in 1..Len(text) : vals[k] < 0 THEN Err([tag |-> "Json"])
        ELSE IF nbits - 8 * n >= w THEN Err([tag |-> "Json"])
        ELSE IF \E i \in (8 * n)..(nbits - 1) : SymBitAt(vals, w, i) = 1
        THEN Err([tag |-> "Json"])
        ELSE Ok([b \in 1..n |->
                    SumSeq([j \in 1..8 |->
                        SymBitAt(vals, w, 8 * (b - 1) + j - 1) * (2 ^ (8 - j))])])

\* A Base32 serializer that pads with '=' to a multiple of eight characters.
Base32EncodePadded(bytes) ==
    LET body == EncodeSymbols(bytes, 5, BASE32_NOPAD)
    IN  body \o [i \in 1..((8 - (Len(body) % 8)) % 8) |-> "="]

\* otti_core::de::base32_string
Base32Encode(bytes) == EncodeSymbols(bytes, 5, BASE32_NOPAD)
Base32Decode(text) == DecodeSymbols(text, 5, BASE32_NOPAD)

\* de::base64_string: general_purpose::STANDARD pads with '=' to a multiple
\* of four characters and requires that padding when decoding.
Base64Encode(bytes) ==
    LET body == EncodeSymbols(bytes, 6, BASE64_STANDARD)
    IN  body \o [i \in 1..((4 - (Len(body) % 4)) % 4) |-> "="]

Base64Decode(text) ==
    LET pad == IF Len(text) >= 2 /\ text[Len(text)] = "="
                     /\ text[Len(text) - 1] = "=" THEN 2
               ELSE IF Len(text) >= 1 /\ text[Len(text)] = "=" THEN 1
               ELSE 0
        body == SubSeq(text, 1, Len(text) - pad)
    IN  IF Len(text) % 4 # 0 THEN Err([tag |-> "Json"])
        ELSE DecodeSymbols(body, 6, BASE64_STANDARD)

\* String::from_utf8 on the byte strings that occur here (ASCII text, and
\* bytes from 128 up standing alone, which are no UTF-8).
FromUtf8(bytes) ==
    IF \A i \in 1..Len(bytes) : bytes[i] < 128 THEN Some(bytes) ELSE None

-----------------------------------------------------------------------------
(* Backup formats: JSON values and the primitives of the envelopes         *)

\* A key of a JSON object that is missing, null, or holds a value.
JAbsent == [t |-> "absent"]
JNull == [t |-> "null"]
JVal(v) == [t |-> "val", v |-> v]

\* An Option field under serde: a missing key and null both read as None.
JOption(j) == IF j.t = "val" THEN Some(j.v) ELSE None

\* The results of a list of conversions, or the first failure among them.
Collect(results) ==
    IF \E i \in 1..Len(results) : results[i].kind = "err"
    THEN results[CHOOSE i \in 1..Len(results) :
                    /\ results[i].kind = "err"
                    /\ \A k \in 1..(i - 1) : results[k].kind = "ok"]
    ELSE Ok([i \in 1..Len(results) |-> results[i].val])

\* A number or list under #[serde(default)]: the default when the key is
\* missing.
JDefault(j, default) == IF j.t = "val" THEN j.v ELSE default

\* BTreeMap::get / first of a list of <<key, bytes>> entries.
ExtrasGet(extras, key) ==
    IF \E i \in 1..Len(extras) : extras[i][1] = key
    THEN Some(extras[CHOOSE i \in 1..Len(extras) : extras[i][1] = key][2])
    ELSE None

\* The entry a present value contributes to a map, none for an absent one.
ExtrasEntry(key, opt) == IF opt.some THEN << << key, opt.val >> >> ELSE << >>

\* The adapters' Algorithm enums and their conversions from and to
\* otti_core::Algorithm: the same three variants, one to one.
AlgorithmFrom(a) ==
    CASE a = "Sha1" -> "Sha1" [] a = "Sha256" -> "Sha256"
      [] a = "Sha512" -> "Sha512"

\* #[serde(rename_all = "UPPERCASE")]
UpperName(v) ==
    CASE v = "Sha1" -> "SHA1" [] v = "Sha256" -> "SHA256"
      [] v = "Sha512" -> "SHA512" [] v = "Hotp" -> "HOTP"
      [] v = "Totp" -> "TOTP" [] v = "Steam" -> "STEAM"

FromUpperName(name, variants) ==
    IF \E v \in variants : UpperName(v) = name
    THEN Ok(CHOOSE v \in variants : UpperName(v) = name)
    ELSE Err([tag |-> "Json"])

\* #[serde(rename_all = "lowercase")]
LowerName(v) ==
    CASE v = "Hotp" -> "hotp" [] v = "Totp" -> "totp" [] v = "Steam" -> "steam"

OtpTypes == {"Hotp", "Totp", "Steam"}

\* A key derived from a password: what it was derived from.  A random key:
\* the draw that made it.
DerivedKey(kdf, password, salt, cost) ==
    [kind |-> kdf, password |-> password, salt |-> salt, cost |-> cost]

RandomKey(draw) == [kind |-> "random", draw |-> draw]

\* AES-256-GCM: the ciphertext and its tag open under the key and nonce
\* they were made with, and under no other.
GcmEncrypt(key, nonce, plain) ==
    [key |-> key, nonce |-> nonce, plain |-> plain, tag |-> "intact"]

GcmDecrypt(key, nonce, sealed) ==
    IF sealed.key = key /\ sealed.nonce = nonce /\ sealed.tag = "intact"
    THEN Ok(sealed.plain)
    ELSE Err([tag |-> "Aead"])

\* The number itself: N handed on as it is stored.
Log2Raw(n) == n

\* floor(log2(n)) of a positive n.
RECURSIVE Log2(_)
Log2(n) == IF n <= 1 THEN 0 ELSE 1 + Log2(n \div 2)

-----------------------------------------------------------------------------
(* provider-aegis                                                          *)

EXTRA_ICON == "aegis/icon"
EXTRA_ICON_MIME == "aegis/icon_mime"
EXTRA_NOTE == "aegis/note"

SLOT_TYPE_PASSWORD == 1

\* Entry: ty is the variant with its OtpInfo and its counter or period (n);
\* icon_mime and note are Strings, held as their UTF-8 bytes.
AegisEntry(kind, secret, algo, digits, n, uuid, name, issuer, group, icon, icon_mime, note) ==
    [ty |-> [kind |-> kind, n |-> n,
             info |-> [secret |-> secret, algo |-> algo, digits |-> digits]],
     uuid |-> uuid, name |-> name, issuer |-> issuer, group |-> group,
     icon |-> icon, icon_mime |-> icon_mime, note |-> note]

\* The conversion with the note stored whatever it holds.
AegisAccountFromEntryNoteKept(e) ==
    Account(e.name, e.ty.info.secret, e.ty.info.digits,
            CASE e.ty.kind = "Hotp" -> Hotp(e.ty.n)
              [] e.ty.kind = "Totp" -> Totp(e.ty.n)
              [] e.ty.kind = "Steam" -> Steam(e.ty.n),
            AlgorithmFrom(e.ty.info.algo),
            Some(e.issuer),
            IF e.group.some THEN << e.group.val >> ELSE << >>,
            ExtrasEntry(EXTRA_ICON, e.icon)
                \o ExtrasEntry(EXTRA_ICON_MIME, e.icon_mime)
                \o ExtrasEntry(EXTRA_NOTE, Some(e.note)))

\* impl From<Entry> for otti_core::Account
AegisAccountFromEntry(e) ==
    Account(e.name, e.ty.info.secret, e.ty.info.digits,
            CASE e.ty.kind = "Hotp" -> Hotp(e.ty.n)
              [] e.ty.kind = "Totp" -> Totp(e.ty.n)
              [] e.ty.kind = "Steam" -> Steam(e.ty.n),
            AlgorithmFrom(e.ty.info.algo),
            Some(e.issuer),
            IF e.group.some THEN << e.group.val >> ELSE << >>,
            ExtrasEntry(EXTRA_ICON, e.icon)
                \o ExtrasEntry(EXTRA_ICON_MIME, e.icon_mime)
                \o ExtrasEntry(EXTRA_NOTE,
                               IF e.note # << >> THEN Some(e.note) ELSE None))

\* impl From<&otti_core::Account> for Entry
AegisEntryFromAccount(a, uuid) ==
    LET mime == ExtrasGet(a.extras, EXTRA_ICON_MIME)
        note == ExtrasGet(a.extras, EXTRA_NOTE)
        noteText == IF note.some THEN FromUtf8(note.val) ELSE None
    IN  AegisEntry(a.otp.type, a.secret, AlgorithmFrom(a.algorithm), a.digits,
                   CASE a.otp.type = "Hotp" -> a.otp.counter
                     [] a.otp.type = "Totp" -> a.otp.window
                     [] a.otp.type = "Steam" -> a.otp.period,
                   uuid, a.label,
                   IF a.issuer.some THEN a.issuer.val ELSE "",
                   IF Len(a.meta.tags) > 0 THEN Some(a.meta.tags[1]) ELSE None,
                   ExtrasGet(a.extras, EXTRA_ICON),
                   IF mime.some THEN FromUtf8(mime.val) ELSE None,
                   IF noteText.some THEN noteText.val ELSE << >>)

\* Serialize for Entry: the variant tag under "type" and its fields under
\* "info" (OtpInfo flattened beside counter or period); group and icon_mime
\* left out when None; icon written as null when None.
AegisSerializeEntry(e) ==
    [type |-> LowerName(e.ty.kind),
     info |-> [secret |-> Base32Encode(e.ty.info.secret),
               algo |-> UpperName(e.ty.info.algo),
               digits |-> e.ty.info.digits,
               counter |-> IF e.ty.kind = "Hotp" THEN JVal(e.ty.n) ELSE JAbsent,
               period |-> IF e.ty.kind = "Hotp" THEN JAbsent ELSE JVal(e.ty.n)],
     uuid |-> e.uuid, name |-> e.name, issuer |-> e.issuer,
     group |-> IF e.group.some THEN JVal(e.group.val) ELSE JAbsent,
     icon |-> IF e.icon.some THEN JVal(Base64Encode(e.icon.val)) ELSE JNull,
     icon_mime |-> IF e.icon_mime.some THEN JVal(e.icon_mime.val) ELSE JAbsent,
     note |-> e.note]

\* Deserialize for Entry: an unknown type or algorithm, a secret or icon
\* that does not decode, a missing counter (hotp) or period (totp, steam)
\* and a missing "icon" key (its custom deserializer has no default) fail.
AegisDeserializeEntry(j) ==
    LET kinds == { k \in OtpTypes : LowerName(k) = j.type }
        kind == CHOOSE k \in kinds : TRUE
        secret == Base32Decode(j.info.secret)
        algo == FromUpperName(j.info.algo, Algorithms)
        n == IF kind = "Hotp" THEN j.info.counter ELSE j.info.period
        icon == IF j.icon.t = "val" THEN Base64Decode(j.icon.v) ELSE Ok(<< >>)
    IN  IF kinds = {} THEN Err([tag |-> "Json"])
        ELSE IF secret.kind = "err" THEN secret
        ELSE IF algo.kind = "err" THEN algo
        ELSE IF n.t # "val" THEN Err([tag |-> "Json"])
        ELSE IF j.icon.t = "absent" THEN Err([tag |-> "Json"])
        ELSE IF icon.kind = "err" THEN icon
        ELSE Ok(AegisEntry(kind, secret.val, algo.val, j.info.digits, n.v,
                           j.uuid, j.name, j.issuer, JOption(j.group),
                           IF j.icon.t = "val" THEN Some(icon.val) ELSE None,
                           JOption(j.icon_mime), j.note))

\* Deserialize for Vault: every entry, or the first failure.
AegisDeserializeVault(j) ==
    LET es == Collect([i \in 1..Len(j.entries) |->
                          AegisDeserializeEntry(j.entries[i])])
    IN  IF es.kind = "err" THEN es
        ELSE Ok([version |-> j.version, entries |-> es.val])

\* AES-256-GCM with a detached tag: the tag is of one ciphertext.
GcmEncryptDetached(key, nonce, plain) ==
    LET data == [key |-> key, nonce |-> nonce, plain |-> plain]
    IN  [data |-> data, tag |-> [over |-> data]]

GcmDecryptDetached(key, nonce, data, tag) ==
    IF data.key = key /\ data.nonce = nonce /\ tag = [over |-> data]
    THEN Ok(data.plain)
    ELSE Err([tag |-> "Aead"])

\* ScryptParams::new(log_n, r, p)
ScryptParamsNew(log_n, r, p) ==
    IF log_n >= 64 \/ log_n >= r * 16 \/ r * p >= 1073741824
    THEN Err([tag |-> "ScryptParams"])
    ELSE Ok(<< log_n, r, p >>)

\* A value drawn at random: the draw and what it was drawn for.
Drawn(draw, what) == [draw |-> draw, what |-> what]

AEGIS_LOG_N == 15
AEGIS_R == 8
AEGIS_P == 1

\* A decrypt that takes the first slot, whatever its type.
aegis_decrypt_first_slot(file, password) ==
    IF ~file.enc THEN Err([tag |-> "Json"])
    ELSE
    LET export == file.doc
        slots == export.header.slots
        slot == slots[1]
        ps == slot.password_slot.v
        params == ScryptParamsNew(Log2(ps.n), ps.r, ps.p)
        key == DerivedKey("scrypt", password, ps.salt, params.val)
        master == GcmDecryptDetached(key, slot.key_params.nonce, slot.key,
                                     slot.key_params.tag)
    IN  IF slots = << >> THEN Err([tag |-> "NoPasswordEntry"])
        ELSE IF slot.password_slot.t # "val"
        THEN Err([tag |-> "NoPasswordEntry"])
        ELSE IF params.kind = "err" THEN params
        ELSE IF master.kind = "err" THEN master
        ELSE GcmDecryptDetached(master.val, export.header.params.nonce,
                                export.db, export.header.params.tag)

\* decrypt: the first slot of type 1 and its scrypt parameters unlock the
\* master key, which unlocks the vault.
aegis_decrypt(file, password) ==
    IF ~file.enc THEN Err([tag |-> "Json"])
    ELSE
    LET export == file.doc
        slots == export.header.slots
        found == { i \in 1..Len(slots) : slots[i].type = SLOT_TYPE_PASSWORD }
        slot == slots[CHOOSE i \in found : \A k \in found : i <= k]
        ps == slot.password_slot.v
        params == ScryptParamsNew(Log2(ps.n), ps.r, ps.p)
        key == DerivedKey("scrypt", password, ps.salt, params.val)
        master == GcmDecryptDetached(key, slot.key_params.nonce, slot.key,
                                     slot.key_params.tag)
    IN  IF found = {} THEN Err([tag |-> "NoPasswordEntry"])
        ELSE IF slot.password_slot.t # "val"
        THEN Err([tag |-> "NoPasswordEntry"])
        ELSE IF params.kind = "err" THEN params
        ELSE IF master.kind = "err" THEN master
        ELSE GcmDecryptDetached(master.val, export.header.params.nonce,
                                export.db, export.header.params.tag)

\* encrypt: a fresh master key seals the vault, and the key scrypt derives
\* from the password seals the master key into one password slot.
aegis_encrypt(data, password, draw) ==
    LET salt == Drawn(draw, "salt")
        params == ScryptParamsNew(AEGIS_LOG_N, AEGIS_R, AEGIS_P)
        key == DerivedKey("scrypt", password, salt, params.val)
        data_key == RandomKey(draw)
        db == GcmEncryptDetached(data_key, Drawn(draw, "data_nonce"), data)
        wrapped == GcmEncryptDetached(key, Drawn(draw, "slot_nonce"), data_key)
    IN  IF params.kind = "err" THEN params
        ELSE Ok([enc |-> TRUE,
                 doc |-> [version |-> 1,
                          header |->
                            [slots |-> << [type |-> SLOT_TYPE_PASSWORD,
                                           uuid |-> Drawn(draw, "slot"),
                                           key |-> wrapped.data,
                                           key_params |->
                                             [nonce |-> Drawn(draw, "slot_nonce"),
                                              tag |-> wrapped.tag],
                                           password_slot |->
                                             JVal([n |-> 2 ^ AEGIS_LOG_N,
                                                   r |-> AEGIS_R,
                                                   p |-> AEGIS_P,
                                                   salt |-> salt,
                                                   repaired |-> TRUE])] >>,
                             params |-> [nonce |-> Drawn(draw, "data_nonce"),
                                         tag |-> db.tag]],
                          db |-> db.data]])

\* load: the vault of an encrypted export (password given) or of a plain
\* one, each entry converted to an account.
aegis_load(file, password) ==
    LET buf == aegis_decrypt(file, password.val)
        vault == IF password.some
                 THEN (IF buf.kind = "err" THEN buf
                       ELSE AegisDeserializeVault(buf.val))
                 ELSE (IF file.enc THEN Err([tag |-> "Json"])
                       ELSE AegisDeserializeVault(file.doc.db))
    IN  IF vault.kind = "err" THEN vault
        ELSE Ok([i \in 1..Len(vault.val.entries) |->
                    AegisAccountFromEntry(vault.val.entries[i])])

\* save: a version-2 vault of the accounts' entries, plain or encrypted.
aegis_save(data, password, draw) ==
    LET vault == [version |-> 2,
                  entries |-> [i \in 1..Len(data) |->
                      AegisSerializeEntry(
                          AegisEntryFromAccount(data[i], Drawn(draw, i)))]]
    IN  IF password.some THEN aegis_encrypt(vault, password.val, draw)
        ELSE Ok([enc |-> FALSE,
                 doc |-> [version |-> 1,
                          header |-> [slots |-> JNull, params |-> JNull],
                          db |-> vault]])

-----------------------------------------------------------------------------
(* provider-andotp                                                         *)

AndotpAccount(secret, issuer, label, digits, period, counter, ty, algorithm, tags) ==
    [secret |-> secret, issuer |-> issuer, label |-> label, digits |-> digits,
     period |-> period, counter |-> counter, ty |-> ty,
     algorithm |-> algorithm, tags |-> tags]

\* impl From<Account> for otti_core::Account
AndotpAccountInto(a) ==
    Account(a.label, a.secret, a.digits,
            CASE a.ty = "Hotp" -> Hotp(a.counter)
              [] a.ty = "Totp" -> Totp(a.period)
              [] a.ty = "Steam" -> Steam(a.period),
            AlgorithmFrom(a.algorithm), Some(a.issuer), a.tags, NoExtras)

\* impl From<&otti_core::Account> for Account
AndotpAccountFrom(a) ==
    AndotpAccount(a.secret,
                  IF a.issuer.some THEN a.issuer.val ELSE "",
                  a.label, a.digits,
                  CASE a.otp.type = "Hotp" -> 0
                    [] a.otp.type = "Totp" -> a.otp.window
                    [] a.otp.type = "Steam" -> a.otp.period,
                  IF a.otp.type = "Hotp" THEN a.otp.counter ELSE 0,
                  a.otp.type, AlgorithmFrom(a.algorithm), a.meta.tags)

\* Serialize for Account: period and counter left out when zero, tags when
\* empty.
AndotpSerialize(a) ==
    [secret |-> Base32Encode(a.secret), issuer |-> a.issuer,
     label |-> a.label, digits |-> JVal(a.digits),
     period |-> IF a.period = 0 THEN JAbsent ELSE JVal(a.period),
     counter |-> IF a.counter = 0 THEN JAbsent ELSE JVal(a.counter),
     type |-> UpperName(a.ty), algorithm |-> UpperName(a.algorithm),
     tags |-> IF a.tags = << >> THEN JAbsent ELSE JVal(a.tags)]

\* Deserialize for Account: digits, period, counter and tags default.
AndotpDeserialize(j) ==
    LET secret == Base32Decode(j.secret)
        ty == FromUpperName(j.type, OtpTypes)
        algorithm == FromUpperName(j.algorithm, Algorithms)
    IN  IF secret.kind = "err" THEN secret
        ELSE IF ty.kind = "err" THEN ty
        ELSE IF algorithm.kind = "err" THEN algorithm
        ELSE Ok(AndotpAccount(secret.val, j.issuer, j.label,
                              JDefault(j.digits, 0), JDefault(j.period, 0),
                              JDefault(j.counter, 0), ty.val, algorithm.val,
                              JDefault(j.tags, << >>)))

ANDOTP_HEADER_LEN == 28     \* iterations (4), salt (12) and IV (12)
GCM_TAG_LEN == 16

\* The least length of the JSON text of a list of n accounts: "[]", or the
\* brackets, the commas and 80 characters of keys and punctuation each.
AndotpJsonLen(n) == IF n = 0 THEN 2 ELSE 81 * n + 1

\* decrypt: PBKDF2-HMAC-SHA1 with the iterations and salt of the header,
\* then AES-256-GCM over the rest.
andotp_decrypt(file, password) ==
    IF file.len <= ANDOTP_HEADER_LEN THEN Err([tag |-> "InputTooShort"])
    ELSE IF ~file.enc THEN Err([tag |-> "AesGcm"])
    ELSE LET key == DerivedKey("pbkdf2", password, file.salt, file.iterations)
             opened == GcmDecrypt(key, file.iv, file.sealed)
         IN  IF opened.kind = "err" THEN Err([tag |-> "AesGcm"]) ELSE opened

andotp_encrypt(data, len, password, draw) ==
    LET key == DerivedKey("pbkdf2", password, Drawn(draw, "salt"),
                          Drawn(draw, "iterations"))
    IN  Ok([enc |-> TRUE, len |-> ANDOTP_HEADER_LEN + len + GCM_TAG_LEN,
            iterations |-> Drawn(draw, "iterations"),
            salt |-> Drawn(draw, "salt"), iv |-> Drawn(draw, "iv"),
            sealed |-> GcmEncrypt(key, Drawn(draw, "iv"), data)])

andotp_load(file, password) ==
    LET json == IF password.some THEN andotp_decrypt(file, password.val)
                ELSE IF file.enc THEN Err([tag |-> "Json"])
                ELSE Ok(file.doc)
        accounts == Collect([i \in 1..Len(json.val) |->
                                AndotpDeserialize(json.val[i])])
    IN  IF json.kind = "err" THEN json
        ELSE IF accounts.kind = "err" THEN accounts
        ELSE Ok([i \in 1..Len(accounts.val) |->
                    AndotpAccountInto(accounts.val[i])])

andotp_save(data, password, draw) ==
    LET json == [i \in 1..Len(data) |->
                    AndotpSerialize(AndotpAccountFrom(data[i]))]
    IN  IF password.some
        THEN andotp_encrypt(json, AndotpJsonLen(Len(data)), password.val, draw)
        ELSE Ok([enc |-> FALSE, len |-> AndotpJsonLen(Len(data)),
                 doc |-> json])

-----------------------------------------------------------------------------
(* provider-authpro                                                        *)

\* OtpType and Algorithm are written as numbers (serde_repr).
AuthproOtpTypes == {"Hotp", "Totp", "Motp", "Steam"}

AuthproTypeRepr(ty) ==
    CASE ty = "Hotp" -> 1 [] ty = "Totp" -> 2 [] ty = "Motp" -> 3
      [] ty = "Steam" -> 4

AuthproAlgorithmRepr(a) ==
    CASE a = "Sha1" -> 0 [] a = "Sha256" -> 1 [] a = "Sha512" -> 2

AuthproTypeFromRepr(n) ==
    IF \E v \in AuthproOtpTypes : AuthproTypeRepr(v) = n
    THEN Ok(CHOOSE v \in AuthproOtpTypes : AuthproTypeRepr(v) = n)
    ELSE Err([tag |-> "Json"])

AuthproAlgorithmFromRepr(n) ==
    IF \E v \in Algorithms : AuthproAlgorithmRepr(v) = n
    THEN Ok(CHOOSE v \in Algorithms : AuthproAlgorithmRepr(v) = n)
    ELSE Err([tag |-> "Json"])

Authenticator(ty, icon, issuer, username, secret, algorithm, digits, period, counter, ranking) ==
    [ty |-> ty, icon |-> icon, issuer |-> issuer, username |-> username,
     secret |-> secret, algorithm |-> algorithm, digits |-> digits,
     period |-> period, counter |-> counter, ranking |-> ranking]

\* The conversion with mOTP taken for a time-based authenticator.
AuthproAccountTryFromAny(a, categories) ==
    Ok(Account(a.username, a.secret, a.digits,
               CASE a.ty = "Hotp" -> Hotp(a.counter)
                 [] a.ty \in {"Totp", "Motp"} -> Totp(a.period)
                 [] a.ty = "Steam" -> Steam(a.period),
               AlgorithmFrom(a.algorithm), Some(a.issuer),
               [i \in 1..Len(categories) |-> categories[i].name],
               NoExtras))

\* impl TryFrom<AuthenticatorWithCategories> for otti_core::Account
AuthproAccountTryFrom(a, categories) ==
    IF a.ty = "Motp"
    THEN Err([tag |-> "UnsupportedOtpType", ty |-> a.ty])
    ELSE Ok(Account(a.username, a.secret, a.digits,
                    CASE a.ty = "Hotp" -> Hotp(a.counter)
                      [] a.ty = "Totp" -> Totp(a.period)
                      [] a.ty = "Steam" -> Steam(a.period),
                    AlgorithmFrom(a.algorithm), Some(a.issuer),
                    [i \in 1..Len(categories) |-> categories[i].name],
                    NoExtras))

\* impl From<&otti_core::Account> for Authenticator
AuthenticatorFrom(a) ==
    Authenticator(a.otp.type, None,
                  IF a.issuer.some THEN a.issuer.val ELSE "",
                  a.label, a.secret, AlgorithmFrom(a.algorithm), a.digits,
                  CASE a.otp.type = "Hotp" -> 0
                    [] a.otp.type = "Totp" -> a.otp.window
                    [] a.otp.type = "Steam" -> a.otp.period,
                  IF a.otp.type = "Hotp" THEN a.otp.counter ELSE 0,
                  0)

AuthproSerialize(a) ==
    [Type |-> AuthproTypeRepr(a.ty),
     Icon |-> IF a.icon.some THEN JVal(a.icon.val) ELSE JNull,
     Issuer |-> a.issuer, Username |-> a.username,
     Secret |-> Base32Encode(a.secret),
     Algorithm |-> AuthproAlgorithmRepr(a.algorithm),
     Digits |-> a.digits, Period |-> a.period, Counter |-> a.counter,
     Ranking |-> a.ranking]

AuthproDeserialize(j) ==
    LET ty == AuthproTypeFromRepr(j.Type)
        secret == Base32Decode(j.Secret)
        algorithm == AuthproAlgorithmFromRepr(j.Algorithm)
    IN  IF ty.kind = "err" THEN ty
        ELSE IF secret.kind = "err" THEN secret
        ELSE IF algorithm.kind = "err" THEN algorithm
        ELSE Ok(Authenticator(ty.val, JOption(j.Icon), j.Issuer, j.Username,
                              secret.val, algorithm.val, j.Digits, j.Period,
                              j.Counter, j.Ranking))

\* Deserialize for AuthenticatorCategory: the secret is Base32 text.
AuthproDeserializeLink(j) ==
    LET secret == Base32Decode(j.AuthenticatorSecret)
    IN  IF secret.kind = "err" THEN secret
        ELSE Ok([category_id |-> j.CategoryId,
                 authenticator_secret |-> secret.val,
                 ranking |-> j.Ranking])

\* Deserialize for Backup (custom icons are read and dropped).
AuthproDeserializeBackup(j) ==
    LET auths == Collect([i \in 1..Len(j.Authenticators) |->
                             AuthproDeserialize(j.Authenticators[i])])
        links == Collect([i \in 1..Len(j.AuthenticatorCategories) |->
                             AuthproDeserializeLink(j.AuthenticatorCategories[i])])
    IN  IF auths.kind = "err" THEN auths
        ELSE IF links.kind = "err" THEN links
        ELSE Ok([authenticators |-> auths.val,
                 categories |->
                    [i \in 1..Len(j.Categories) |->
                        [id |-> j.Categories[i].Id,
                         name |-> j.Categories[i].Name,
                         ranking |-> j.Categories[i].Ranking]],
                 authenticator_categories |-> links.val])

AUTHPRO_HEADER_LEN == 16    \* "AuthenticatorPro"
PBKDF2_ROUNDS == 64000
SALT_SIZE == 20
BLOCK_SIZE == 16

\* The length of the JSON text of a backup of n authenticators and nothing
\* else: 83 characters around the list, at least 121 for each authenticator
\* and the commas between them.
AuthproJsonLen(n) == IF n = 0 THEN 83 ELSE 83 + 122 * n - 1

\* PKCS#7 pads to the next multiple of the block size, a full block when the
\* length already is one.
Pkcs7Len(len) == (len \div BLOCK_SIZE + 1) * BLOCK_SIZE

\* AES-256-CBC with PKCS#7: under another key or IV the padding of what
\* comes out is not valid.
CbcEncrypt(key, iv, plain) == [key |-> key, iv |-> iv, plain |-> plain]

CbcDecrypt(key, iv, sealed) ==
    IF sealed.key = key /\ sealed.iv = iv THEN Ok(sealed.plain)
    ELSE Err([tag |-> "Aes"])

\* decrypt: the header is skipped unchecked; PBKDF2-HMAC-SHA1 (64000
\* rounds) with the salt of the file, then AES-256-CBC.
authpro_decrypt(file, password) ==
    IF file.len <= AUTHPRO_HEADER_LEN + SALT_SIZE + BLOCK_SIZE
    THEN Err([tag |-> "InputTooShort"])
    ELSE IF ~file.enc THEN Err([tag |-> "Aes"])
    ELSE CbcDecrypt(DerivedKey("pbkdf2", password, file.salt, PBKDF2_ROUNDS),
                    file.iv, file.sealed)

authpro_encrypt(data, len, password, draw) ==
    LET key == DerivedKey("pbkdf2", password, Drawn(draw, "salt"), PBKDF2_ROUNDS)
    IN  Ok([enc |-> TRUE,
            len |-> AUTHPRO_HEADER_LEN + SALT_SIZE + BLOCK_SIZE + Pkcs7Len(len),
            header |-> "AuthenticatorPro",
            salt |-> Drawn(draw, "salt"), iv |-> Drawn(draw, "iv"),
            sealed |-> CbcEncrypt(key, Drawn(draw, "iv"), data)])

\* The categories that some link row with the authenticator's secret names,
\* in the order of the category list.
AuthproCategoriesInListOrder(auth, links, categories) ==
    LET Linked(c) == \E l \in 1..Len(links) :
                        /\ links[l].authenticator_secret = auth.secret
                        /\ links[l].category_id = c.id
    IN  SelectSeq(categories, Linked)

\* The categories of an authenticator: for every link row with its secret,
\* in order, the first category with the row's id, where there is one.
AuthproCategoriesOf(auth, links, categories) ==
    LET HasCategory(id) == \E c \in 1..Len(categories) : categories[c].id = id
        Matches(l) == l.authenticator_secret = auth.secret
                        /\ HasCategory(l.category_id)
        rows == SelectSeq(links, Matches)
    IN  [i \in 1..Len(rows) |->
            categories[CHOOSE c \in 1..Len(categories) :
                /\ categories[c].id = rows[i].category_id
                /\ \A k \in 1..(c - 1) :
                      categories[k].id # rows[i].category_id]]

authpro_load(file, password) ==
    LET json == IF password.some THEN authpro_decrypt(file, password.val)
                ELSE IF file.enc THEN Err([tag |-> "Json"])
                ELSE Ok(file.doc)
        backup == AuthproDeserializeBackup(json.val)
    IN  IF json.kind = "err" THEN json
        ELSE IF backup.kind = "err" THEN backup
        ELSE Collect([i \in 1..Len(backup.val.authenticators) |->
                AuthproAccountTryFrom(
                    backup.val.authenticators[i],
                    AuthproCategoriesOf(backup.val.authenticators[i],
                                        backup.val.authenticator_categories,
                                        backup.val.categories))])

\* save: the authenticators of the accounts; categories, links and custom
\* icons are written empty.
authpro_save(data, password, draw) ==
    LET json == [Authenticators |->
                    [i \in 1..Len(data) |->
                        AuthproSerialize(AuthenticatorFrom(data[i]))],
                 Categories |-> << >>,
                 AuthenticatorCategories |-> << >>,
                 CustomIcons |-> << >>]
    IN  IF password.some
        THEN authpro_encrypt(json, AuthproJsonLen(Len(data)), password.val, draw)
        ELSE Ok([enc |-> FALSE, len |-> AuthproJsonLen(Len(data)),
                 doc |-> json])

-----------------------------------------------------------------------------
(* otti: the show command, the list widget and the loop of the interface  *)

LIST_ITEM_HEIGHT == 4

\* str::to_lowercase and str::contains on ASCII text held as characters
\* (A..Z and a..z are the first 52 symbols of the Base64 alphabet).
ToLowercase(text) ==
    [i \in 1..Len(text) |->
        IF IndexOf(BASE64_STANDARD, text[i]) \in 0..25
        THEN BASE64_STANDARD[IndexOf(BASE64_STANDARD, text[i]) + 27]
        ELSE text[i]]

Contains(text, pattern) ==
    \E i \in 0..(Len(text) - Len(pattern)) :
        SubSeq(text, i + 1, i + Len(pattern)) = pattern

\* The characters of the labels and issuers of the accounts in use.
Chars(str) ==
    CASE str = "" -> << >>
      [] str = "me" -> << "m", "e" >>
      [] str = "Test This" -> << "T", "e", "s", "t", " ", "T", "h", "i", "s" >>
      [] str = "Entry 1" -> << "E", "n", "t", "r", "y", " ", "1" >>

\* The code the program computes for an account: always with Sha1.
CodeFor(acc, clock, build) ==
    generate("Sha1", acc.secret, acc.otp, Some(acc.digits), clock, build)

\* show: the first account whose issuer contains the issuer asked for and
\* whose label contains the label asked for (both compared in lower case;
\* an account without issuer never matches), and its code.
show(accounts, issuer, label, clock, build) ==
    LET Matches(a) ==
            /\ a.issuer.some
            /\ Contains(ToLowercase(Chars(a.issuer.val)), ToLowercase(issuer))
            /\ label.some =>
                  Contains(ToLowercase(Chars(a.label)), ToLowercase(label.val))
        found == { i \in 1..Len(accounts) : Matches(accounts[i]) }
        at == CHOOSE i \in found : \A k \in found : i <= k
        code == CodeFor(accounts[at], clock, build)
    IN  IF found = {} THEN [kind |-> "ok", found |-> None]
        ELSE IF code.kind # "ok" THEN code
        ELSE [kind |-> "ok", found |-> Some(at),
              issuer |-> accounts[at].issuer.val,
              label |-> accounts[at].label,
              code |-> Display(code.val)]

\* ListState::up and ListState::down; items.len() - 1 on an empty list
\* aborts where overflow is checked and wraps to usize::MAX elsewhere.
ListUp(state) ==
    IF state.selection > 0
    THEN [state EXCEPT !.selection = state.selection - 1]
    ELSE state

ListDown(state, len, build) ==
    IF len = 0 /\ build = "debug"
    THEN Panic("attempt to subtract with overflow")
    ELSE IF len = 0 \/ state.selection < len - 1
    THEN Ok([state EXCEPT !.selection = state.selection + 1])
    ELSE Ok(state)

\* update_scroll_pos: scroll down until the selection fits in the height,
\* then up until it is not above the first item shown.
RECURSIVE ScrollDown(_, _, _)
ScrollDown(selection, scroll_pos, height) ==
    IF Max(selection + 1 - scroll_pos, 0) * LIST_ITEM_HEIGHT > height
    THEN ScrollDown(selection, scroll_pos + 1, height)
    ELSE scroll_pos

\* The first loop without the second.
update_scroll_pos_down(state, height) ==
    [state EXCEPT !.scroll_pos =
        ScrollDown(state.selection, state.scroll_pos, height)]

update_scroll_pos(state, height) ==
    LET down == ScrollDown(state.selection, state.scroll_pos, height)
    IN  [state EXCEPT !.scroll_pos =
            IF state.selection < down THEN state.selection ELSE down]

\* ScrollBar::render: value * (height - bar_height) / max, in u16.
ScrollBarRender(value, max, height) ==
    LET bar_height == IF Max(2, height \div 8) < height
                      THEN Max(2, height \div 8) ELSE height
    IN  IF max % 65536 = 0 THEN Panic("attempt to divide by zero")
        ELSE Ok([bar_height |-> bar_height,
                 start |-> ((value % 65536) * (height - bar_height))
                              \div (max % 65536)])

\* List::render in an area wide enough for the bar: the scroll position is
\* updated, the items are drawn, and the bar is given the selection and
\* items.len() - 1.
ListRender(len, state, height, build) ==
    LET updated == update_scroll_pos(state, height)
        bar == ScrollBarRender(updated.selection,
                               IF len = 0 THEN 65535 ELSE len - 1, height)
    IN  IF len = 0 /\ build = "debug"
        THEN Panic("attempt to subtract with overflow")
        ELSE IF bar.kind = "panic" THEN bar
        ELSE Ok(updated)

\* A toggle that only ever shows.
toggle_dialog_shows(showing, dialog) == dialog

\* toggle_dialog
toggle_dialog(showing, dialog) == IF showing = dialog THEN "None" ELSE dialog

\* The top of the draw loop: the code of the selected account when the code
\* dialog shows, then the frame is drawn.  An error of generate ends run, an
\* abort ends the process.
LoopTop(t) ==
    LET selected == t.list_state.selection + 1
        hasCode == t.showing = "Code" /\ selected <= Len(t.accounts)
        code == CodeFor(t.accounts[selected], t.clock, t.build)
        drawn == ListRender(Len(t.accounts), t.list_state, t.height, t.build)
    IN  IF hasCode /\ code.kind = "err" THEN [t EXCEPT !.status = "error"]
        ELSE IF hasCode /\ code.kind = "panic"
        THEN [t EXCEPT !.status = "panic"]
        ELSE IF drawn.kind = "panic" THEN [t EXCEPT !.status = "panic"]
        ELSE [t EXCEPT !.status = "running",
                       !.otp_code = IF hasCode THEN Display(code.val) ELSE << >>,
                       !.list_state = drawn.val]

-----------------------------------------------------------------------------
(* otti-core: the otpauth URI parser (url.rs)                               *)

\* The printable ASCII characters, from ' ' (32) to '~' (126); the double
\* quote, the backslash and the backtick are spelt by name.
ASCII ==
    << " ", "!", "dquote", "#", "$", "%", "&", "'", "(", ")", "*", "+", ",",
       "-", ".", "/", "0", "1", "2", "3", "4", "5", "6", "7", "8", "9", ":",
       ";", "<", "=", ">", "?", "@", "A", "B", "C", "D", "E", "F", "G", "H",
       "I", "J", "K", "L", "M", "N", "O", "P", "Q", "R", "S", "T", "U", "V",
       "W", "X", "Y", "Z", "[", "bslash", "]", "^", "_", "btick", "a", "b",
       "c", "d", "e", "f", "g", "h", "i", "j", "k", "l", "m", "n", "o", "p",
       "q", "r", "s", "t", "u", "v", "w", "x", "y", "z", "{", "|", "}", "~" >>

ByteOf(ch) == IndexOf(ASCII, ch) + 32
CharOf(byte) == ASCII[byte - 31]

HEX_UPPER ==
    << "0", "1", "2", "3", "4", "5", "6", "7", "8", "9",
       "A", "B", "C", "D", "E", "F" >>

HEX_LOWER ==
    << "0", "1", "2", "3", "4", "5", "6", "7", "8", "9",
       "a", "b", "c", "d", "e", "f" >>

\* The value of a hexadecimal digit, -1 for any other character.
HexVal(ch) == Max(IndexOf(HEX_UPPER, ch), IndexOf(HEX_LOWER, ch))

\* percent_encoding::percent_decode_str: '%' and two hexadecimal digits
\* become the byte they spell, everything else stands for itself.
RECURSIVE PercentDecode(_)
PercentDecode(text) ==
    IF text = << >> THEN << >>
    ELSE IF /\ text[1] = "%"
            /\ Len(text) >= 3
            /\ HexVal(text[2]) >= 0
            /\ HexVal(text[3]) >= 0
    THEN << 16 * HexVal(text[2]) + HexVal(text[3]) >>
            \o PercentDecode(SubSeq(text, 4, Len(text)))
    ELSE << ByteOf(text[1]) >> \o PercentDecode(Tail(text))

\* decode_utf8 on the decoded bytes: the text, or that it is no UTF-8.
DecodeUtf8(bytes) ==
    IF FromUtf8(bytes).some
    THEN Ok([i \in 1..Len(bytes) |-> CharOf(bytes[i])])
    ELSE Err("InvalidUtf8")

\* A split at the last ':' (rsplitn).
SplitAtLast(text) ==
    LET colons == { i \in 1..Len(text) : text[i] = ":" }
        last == CHOOSE i \in colons : \A k \in colons : i >= k
    IN  IF colons = {} THEN << text >>
        ELSE << SubSeq(text, 1, last - 1), SubSeq(text, last + 1, Len(text)) >>

\* str::splitn(2, ':'): the text up to the first ':' and the text after it,
\* or the whole text alone.
SplitN2(text) ==
    LET colons == { i \in 1..Len(text) : text[i] = ":" }
        first == CHOOSE i \in colons : \A k \in colons : i <= k
    IN  IF colons = {} THEN << text >>
        ELSE << SubSeq(text, 1, first - 1), SubSeq(text, first + 1, Len(text)) >>

\* str::eq_ignore_ascii_case
EqIgnoreAsciiCase(a, b) == ToLowercase(a) = ToLowercase(b)

\* A from_str that compares the host as written.
OtpTypeFromStrExact(host) ==
    IF host = << "h", "o", "t", "p" >> THEN Ok("Hotp")
    ELSE IF host = << "t", "o", "t", "p" >> THEN Ok("Totp")
    ELSE IF host = << "s", "t", "e", "a", "m" >> THEN Ok("Steam")
    ELSE Err("InvalidHost")

\* OtpType::from_str
OtpTypeFromStr(host) ==
    IF EqIgnoreAsciiCase(host, << "h", "o", "t", "p" >>) THEN Ok("Hotp")
    ELSE IF EqIgnoreAsciiCase(host, << "t", "o", "t", "p" >>) THEN Ok("Totp")
    ELSE IF EqIgnoreAsciiCase(host, << "s", "t", "e", "a", "m" >>)
    THEN Ok("Steam")
    ELSE Err("InvalidHost")

\* A default_digits that is 6 for every type.
default_digits_six(otp_type) == 6

\* OtpType::default_digits
default_digits(otp_type) == IF otp_type = "Steam" THEN 5 ELSE 6

\* ParamsAlgorithm::try_from
ParamsAlgorithmTryFrom(text) ==
    IF EqIgnoreAsciiCase(text, << "s", "h", "a", "1" >>) THEN Ok("Sha1")
    ELSE IF EqIgnoreAsciiCase(text, << "s", "h", "a", "2", "5", "6" >>)
    THEN Ok("Sha256")
    ELSE IF EqIgnoreAsciiCase(text, << "s", "h", "a", "5", "1", "2" >>)
    THEN Ok("Sha512")
    ELSE Err("Deserialize")

default_algorithm == "Sha1"
default_period == 30

\* The number a string of decimal digits spells.
RECURSIVE DecimalValue(_)
DecimalValue(text) ==
    IF text = << >> THEN 0
    ELSE 10 * DecimalValue(SubSeq(text, 1, Len(text) - 1))
            + IndexOf(DecimalChars, text[Len(text)])

\* str::parse for an unsigned integer, on at most nine digits: None for an
\* empty text or a character that is no digit.
ParseU64(text) ==
    IF \/ text = << >>
       \/ Len(text) > 9
       \/ \E i \in 1..Len(text) : IndexOf(DecimalChars, text[i]) < 0
    THEN None
    ELSE Some(DecimalValue(text))

\* str::parse for u8: None as well for a value past 255.
ParseU8(text) ==
    IF ParseU64(text).some /\ ParseU64(text).val > 255 THEN None
    ELSE ParseU64(text)

\* serde_qs on a value: '+' is a space, then percent-decoding, then UTF-8.
QsDecode(value) ==
    DecodeUtf8(PercentDecode([i \in 1..Len(value) |->
                                 IF value[i] = "+" THEN " " ELSE value[i]]))

\* The value of a key of the query (pairs of key and raw value), decoded.
QsGet(query, key) ==
    LET hits == { i \in 1..Len(query) : query[i][1] = key }
        first == CHOOSE i \in hits : \A k \in hits : i <= k
    IN  IF hits = {} THEN None ELSE Some(QsDecode(query[first][2]))

\* serde_qs::from_str::<Params>: secret is required and Base32; algorithm
\* defaults to SHA1 and period to 30; digits, counter and issuer are optional.
QsParams(query) ==
    LET secret == QsGet(query, "secret")
        issuer == QsGet(query, "issuer")
        algorithm == QsGet(query, "algorithm")
        digits == QsGet(query, "digits")
        period == QsGet(query, "period")
        counter == QsGet(query, "counter")
        Bad(field) == field.some /\ field.val.kind # "ok"
        NoU8(field) == field.some /\ ~ParseU8(field.val.val).some
        NoU64(field) == field.some /\ ~ParseU64(field.val.val).some
    IN  IF \/ ~secret.some
           \/ \E f \in {secret, issuer, algorithm, digits, period, counter} :
                 Bad(f)
        THEN Err("Deserialize")
        ELSE IF Base32Decode(secret.val.val).kind # "ok" THEN Err("Deserialize")
        ELSE IF /\ algorithm.some
                /\ ParamsAlgorithmTryFrom(algorithm.val.val).kind # "ok"
        THEN Err("Deserialize")
        ELSE IF NoU8(digits) \/ NoU64(period) \/ NoU64(counter)
        THEN Err("Deserialize")
        ELSE Ok([secret |-> Base32Decode(secret.val.val).val,
                 issuer |-> IF issuer.some THEN Some(issuer.val.val) ELSE None,
                 algorithm |->
                    IF algorithm.some
                    THEN ParamsAlgorithmTryFrom(algorithm.val.val).val
                    ELSE default_algorithm,
                 digits |->
                    IF digits.some THEN ParseU8(digits.val.val) ELSE None,
                 period |->
                    IF period.some THEN ParseU64(period.val.val).val
                    ELSE default_period,
                 counter |->
                    IF counter.some THEN ParseU64(counter.val.val)
                    ELSE None])

\* url::Url::parse on a text of the shape scheme:[//authority]path[?query],
\* given by its parts.  The scheme is lower-cased; a text without scheme is a
\* relative URL and no URL on its own; a special scheme needs a host; the
\* host of any other scheme is opaque (kept as written), must not hold a
\* forbidden character, and reads as no host when it is empty.
SpecialSchemes == { << "h", "t", "t", "p" >> }
ForbiddenHostChars == { " ", "<", ">", "^", "|" }

UrlParse(input) ==
    LET scheme == ToLowercase(input.scheme)
        written == IF input.authority.some THEN input.authority.val ELSE << >>
    IN  IF scheme = << >> THEN Err("InvalidUrl")
        ELSE IF scheme \in SpecialSchemes /\ written = << >>
        THEN Err("InvalidUrl")
        ELSE IF \E i \in 1..Len(written) : written[i] \in ForbiddenHostChars
        THEN Err("InvalidUrl")
        ELSE Ok([scheme |-> scheme,
                 host |-> IF written = << >> THEN None
                          ELSE IF scheme \in SpecialSchemes
                          THEN Some(ToLowercase(written))
                          ELSE Some(written),
                 path |-> input.path,
                 query |-> input.query])

OTPAUTH == << "o", "t", "p", "a", "u", "t", "h" >>

\* url::parse: the stages in the order of the source; reads records which
\* parts of the parsed URL parse had looked at when it returned.
parse(input) ==
    LET url == UrlParse(input)
        otp_type == OtpTypeFromStr(url.val.host.val)
        query == IF url.val.query.some THEN url.val.query.val ELSE << >>
        params == QsParams(query)
        path == url.val.path
        stripped == IF path # << >> /\ path[1] = "/" THEN Tail(path) ELSE path
        decoded == DecodeUtf8(PercentDecode(stripped))
        parts == SplitN2(decoded.val)
        label == IF Len(parts) = 2 THEN parts[2] ELSE decoded.val
        issuer == IF Len(parts) = 2 THEN Some(parts[1]) ELSE None
        Fail(e, reads) == [kind |-> "err", err |-> e, reads |-> reads]
    IN  IF url.kind # "ok" THEN Fail("InvalidUrl", {})
        ELSE IF url.val.scheme # OTPAUTH
        THEN Fail("InvalidScheme", {"scheme"})
        ELSE IF ~url.val.host.some THEN Fail("MissingHost", {"scheme", "host"})
        ELSE IF otp_type.kind # "ok"
        THEN Fail("InvalidHost", {"scheme", "host"})
        ELSE IF params.kind # "ok"
        THEN Fail("Deserialize", {"scheme", "host", "query"})
        ELSE IF decoded.kind # "ok"
        THEN Fail("InvalidUtf8", {"scheme", "host", "query", "path"})
        ELSE [kind |-> "ok",
              reads |-> {"scheme", "host", "query", "path"},
              val |-> Account(
                  label, params.val.secret,
                  IF params.val.digits.some THEN params.val.digits.val
                  ELSE default_digits(otp_type.val),
                  CASE otp_type.val = "Hotp" ->
                          Hotp(IF params.val.counter.some
                               THEN params.val.counter.val ELSE 0)
                    [] otp_type.val = "Totp" -> Totp(params.val.period)
                    [] otp_type.val = "Steam" -> Steam(params.val.period),
                  params.val.algorithm,
                  IF params.val.issuer.some THEN params.val.issuer ELSE issuer,
                  << >>, NoExtras)]

-----------------------------------------------------------------------------
(* The generator under test: a call is drawn, then made.                   *)

MaxWindow == 2      \* counters, windows and periods drawn: 0..MaxWindow
MaxClock == 3       \* clock readings drawn: 0..MaxClock seconds, and -1
MaxDigits == 10     \* digit counts drawn: 0..MaxDigits, and 32 and 255

Builds == {"debug", "release"}

GenKeys == { <<>>, <<1>>, <<72, 101>> }

GenOtps ==
    { Hotp(c) : c \in 0..MaxWindow } \cup { Totp(w) : w \in 0..MaxWindow }
        \cup { Steam(p) : p \in 0..MaxWindow }

GenDigits == (0..MaxDigits) \cup {32, 255}

GenClocks == (0..MaxClock) \cup {-1}

\* The MAC of the digit test (RFC 4226's example), and an all-ones MAC.
RfcMac ==
    << 31, 134, 152, 105, 14, 2, 202, 22, 97, 133,
       80, 239, 127, 25, 218, 142, 148, 91, 85, 90 >>

OnesMac == [i \in 1..20 |-> 255]

LastBytes == (0..15) \cup {90, 240, 255}

DigitMacs ==
    { [m EXCEPT ![20] = b] : m \in {RfcMac, OnesMac}, b \in LastBytes }

\* Codes to display: of the display test, empty, numeric and Steam codes.
GenCodes ==
    { << "1", "2", "3" >>, << >>, << "0" >>,
      << "8", "7", "2", "9", "2", "1" >>, << "P", "8", "C", "4", "2" >> }

GenCalls ==
    [op : {"generate"}, alg : Algorithms, key : GenKeys, otp : GenOtps,
     digits : {None} \cup { Some(d) : d \in GenDigits },
     clock : GenClocks, build : Builds]
    \cup [op : {"digit"}, bytes : DigitMacs, digits : GenDigits, build : Builds]
    \cup [op : {"display"}, code : GenCodes, digits : GenDigits]

Pending == [kind |-> "pending"]

GenInit ==
    /\ genCall \in GenCalls
    /\ genRet = Pending
    /\ genAgain = Pending

GenIdle ==
    /\ genCall = [op |-> "none"]
    /\ genRet = Pending
    /\ genAgain = Pending

CallGenerate ==
    /\ genCall.op = "generate"
    /\ genRet = Pending
    /\ genRet' = generate(genCall.alg, genCall.key, genCall.otp,
                          genCall.digits, genCall.clock, genCall.build)
    /\ UNCHANGED <<genCall, genAgain>>
    /\ GenOnly

CallDigit ==
    /\ genCall.op = "digit"
    /\ genRet = Pending
    /\ genRet' = digit(genCall.bytes, genCall.digits, genCall.build)
    /\ UNCHANGED <<genCall, genAgain>>
    /\ GenOnly

\* OtpCode { code, digits }.to_string()
CallDisplay ==
    /\ genCall.op = "display"
    /\ genRet = Pending
    /\ genRet' = Ok(Display(OtpCode(genCall.code, genCall.digits)))
    /\ UNCHANGED <<genCall, genAgain>>
    /\ GenOnly

\* generate called once more through the same references to key and variant,
\* with the system clock reading whatever it reads then.
CallAgain ==
    /\ genCall.op = "generate"
    /\ genRet # Pending
    /\ genAgain = Pending
    /\ \E clock \in GenClocks :
          genAgain' = [kind |-> "returned", clock |-> clock,
                       ret |-> generate(genCall.alg, genCall.key, genCall.otp,
                                        genCall.digits, clock, genCall.build)]
    /\ UNCHANGED <<genCall, genRet>>
    /\ GenOnly

GenNext == CallGenerate \/ CallDigit \/ CallDisplay \/ CallAgain

-----------------------------------------------------------------------------
(* The store in use: seal, foreign writes to the file, open                *)

MaxSeals == 1       \* seal calls in one run

StorePasswords == {"", "a", "b"}
RandomDraws == {"r1", "r2"}

NoCall == [done |-> FALSE]

\* What someone editing a sealed file by hand (or another program holding the
\* password) can turn it into.
ForeignHeaders ==
    { <<>>, <<1>>, <<0, 0>>, <<2, 0>>, <<0, 1>>, <<1, 1>>, <<255, 255>> }

Tamperings(file) ==
    LET rec == file.body.record
        withRecord(r) == [file EXCEPT !.body.record = r]
    IN  { [file EXCEPT !.header = h] : h \in ForeignHeaders }
        \cup { [file EXCEPT !.body = [msgpack |-> FALSE]] }
        \cup { withRecord([rec EXCEPT !.salt.len = l]) : l \in {0, 4} }
        \cup { withRecord([rec EXCEPT !.iterations = n]) : n \in {0, 2, 4} }
        \cup { withRecord([rec EXCEPT !.memory = m]) : m \in {4, 131072} }
        \cup { withRecord([rec EXCEPT !.data.len = l]) :
                  l \in {0, NONCE_SIZE + TAG_SIZE} }
        \cup { withRecord([rec EXCEPT !.data.intact = FALSE]) }
        \cup { withRecord([rec EXCEPT !.data.data = d]) :
                  d \in {NotZlib, compress(MsgGarbage)} }

StoreInit ==
    /\ storeFile = NoFile
    /\ storeOrigin = [by |-> "none", seals |-> 0]
    /\ lastSeal = NoCall
    /\ lastOpen = NoCall

StoreIdle == StoreInit

Seal ==
    /\ StoreOnly
    /\ \E accounts \in AccountLists, password \in StorePasswords,
       rnd \in RandomDraws :
        LET r == seal(accounts, password, rnd, rnd)
        IN  /\ storeOrigin.seals < MaxSeals
            /\ lastSeal' = [done |-> TRUE, password |-> password,
                            ret |-> IF r.kind = "ok" THEN Ok("unit") ELSE r]
            /\ IF r.kind = "ok"
               THEN /\ storeFile' = r.val
                    /\ storeOrigin' = [by |-> "seal", accounts |-> accounts,
                                       password |-> password,
                                       seals |-> storeOrigin.seals + 1]
                    /\ lastOpen' = NoCall
               ELSE /\ storeOrigin' =
                          [storeOrigin EXCEPT !.seals = storeOrigin.seals + 1]
                    /\ UNCHANGED <<storeFile, lastOpen>>

ForeignWrite ==
    /\ storeOrigin.by = "seal"
    /\ \E f \in Tamperings(storeFile) :
          /\ storeFile' = f
          /\ storeOrigin' = [by |-> "foreign", seals |-> storeOrigin.seals]
    /\ lastOpen' = NoCall
    /\ UNCHANGED lastSeal
    /\ StoreOnly

Open ==
    /\ StoreOnly
    /\ \E password \in StorePasswords :
        LET r == open(storeFile, password)
        IN  /\ lastOpen' = [done |-> TRUE, password |-> password,
                            ret |-> r.ret, steps |-> r.steps]
            /\ UNCHANGED <<storeFile, storeOrigin, lastSeal>>

StoreNext == Seal \/ ForeignWrite \/ Open

-----------------------------------------------------------------------------
(* The adapters in use: a backup of another application is loaded, the     *)
(* accounts are saved again, and what was saved is loaded                  *)

MaxEntries == 2     \* entries of a backup: every list of 0..MaxEntries

Adapters == {"aegis", "andotp", "authpro"}

AdPasswords == { None, Some("123"), Some("abc") }

\* Base32 text of the secrets <<72, 101>> and <<0, 255, 1>>, and text that
\* is no Base32 (lower case).
TextJBSQ == << "J", "B", "S", "Q" >>
TextAD7QC == << "A", "D", "7", "Q", "C" >>
TextLower == << "j", "b" >>

AegisInfo(secret, algo, digits, counter, period) ==
    [secret |-> secret, algo |-> algo, digits |-> digits,
     counter |-> counter, period |-> period]

\* Entries as Aegis writes them, and one whose secret does not decode.
AegisBackupEntries ==
    { [type |-> "totp",
       info |-> AegisInfo(TextJBSQ, "SHA1", 6, JAbsent, JVal(30)),
       uuid |-> Drawn("app", 1), name |-> "me", issuer |-> "Test This",
       group |-> JAbsent, icon |-> JNull, icon_mime |-> JAbsent,
       note |-> << >>],
      [type |-> "hotp",
       info |-> AegisInfo(TextAD7QC, "SHA256", 8, JVal(1), JAbsent),
       uuid |-> Drawn("app", 2), name |-> "Entry 1", issuer |-> "",
       group |-> JVal("Tag 1"), icon |-> JVal(<< "A", "Q", "I", "=" >>),
       icon_mime |-> JVal(<< 112, 110, 103 >>), note |-> << 116 >>],
      [type |-> "steam",
       info |-> AegisInfo(<< >>, "SHA512", 5, JAbsent, JVal(30)),
       uuid |-> Drawn("app", 3), name |-> "", issuer |-> "Steam",
       group |-> JVal(""), icon |-> JNull, icon_mime |-> JAbsent,
       note |-> << 116 >>],
      [type |-> "totp",
       info |-> AegisInfo(TextLower, "SHA1", 6, JAbsent, JVal(30)),
       uuid |-> Drawn("app", 4), name |-> "bad", issuer |-> "",
       group |-> JAbsent, icon |-> JNull, icon_mime |-> JAbsent,
       note |-> << >>] }

AndotpJson(secret, issuer, label, digits, period, counter, type, algorithm, tags) ==
    [secret |-> secret, issuer |-> issuer, label |-> label,
     digits |-> digits, period |-> period, counter |-> counter,
     type |-> type, algorithm |-> algorithm, tags |-> tags]

\* Entries as andOTP writes them (some keys left out), and one of a type
\* the adapter does not know.
AndotpBackupEntries ==
    { AndotpJson(TextJBSQ, "Test This", "me", JVal(6), JVal(30), JAbsent,
                 "TOTP", "SHA1", JVal(<< >>)),
      AndotpJson(TextAD7QC, "", "Entry 1", JVal(8), JAbsent, JVal(1),
                 "HOTP", "SHA256", JVal(<< "Tag 1", "Tag 2" >>)),
      AndotpJson(<< >>, "Steam", "", JAbsent, JAbsent, JAbsent,
                 "STEAM", "SHA512", JAbsent),
      AndotpJson(TextJBSQ, "", "bad", JVal(6), JVal(30), JAbsent,
                 "MOTP", "SHA1", JAbsent) }

AuthproJson(type, icon, issuer, username, secret, algorithm, digits, period, counter, ranking) ==
    [Type |-> type, Icon |-> icon, Issuer |-> issuer, Username |-> username,
     Secret |-> secret, Algorithm |-> algorithm, Digits |-> digits,
     Period |-> period, Counter |-> counter, Ranking |-> ranking]

\* Authenticators as Authenticator Pro writes them; the one of type 3 is
\* mOTP.
AuthproBackupEntries ==
    { AuthproJson(2, JNull, "Test This", "me", TextJBSQ, 0, 6, 30, 0, 0),
      AuthproJson(1, JVal("icon"), "", "Entry 1", TextAD7QC, 1, 8, 0, 1, 1),
      AuthproJson(4, JNull, "Steam", "", << >>, 2, 5, 30, 0, 2),
      AuthproJson(3, JNull, "", "motp", TextJBSQ, 0, 6, 30, 0, 3) }

\* The categories of every Authenticator Pro backup here, and the rows that
\* link secrets to them (one row names a category that does not exist).
AuthproBackupCategories ==
    << [Id |-> "c1", Name |-> "Tag 1", Ranking |-> 0],
       [Id |-> "c2", Name |-> "Tag 2", Ranking |-> 1] >>

AuthproBackupLinks ==
    << [CategoryId |-> "c1", AuthenticatorSecret |-> TextAD7QC, Ranking |-> 0],
       [CategoryId |-> "c2", AuthenticatorSecret |-> TextAD7QC, Ranking |-> 1],
       [CategoryId |-> "c9", AuthenticatorSecret |-> TextJBSQ, Ranking |-> 0],
       [CategoryId |-> "c1", AuthenticatorSecret |-> << >>, Ranking |-> 1] >>

\* The link rows of a backup: those above, rows that name the categories of
\* one secret in the other order and leave the other secrets out, or none.
AuthproBackupLinkLists ==
    { AuthproBackupLinks,
      << [CategoryId |-> "c2", AuthenticatorSecret |-> TextAD7QC, Ranking |-> 0],
         [CategoryId |-> "c9", AuthenticatorSecret |-> TextAD7QC, Ranking |-> 1],
         [CategoryId |-> "c1", AuthenticatorSecret |-> TextAD7QC, Ranking |-> 2] >>,
      << >> }

EntryLists(pool) == UNION { [1..n -> pool] : n \in 0..MaxEntries }

\* The backup file of the other application: plain, or encrypted under the
\* password "123".
AegisBackup(entries, enc) ==
    LET vault == [version |-> 2, entries |-> entries]
    IN  IF enc THEN aegis_encrypt(vault, "123", "app").val
        ELSE [enc |-> FALSE,
              doc |-> [version |-> 1,
                       header |-> [slots |-> JNull, params |-> JNull],
                       db |-> vault]]

\* The slots an Aegis vault can carry besides, or instead of, the password
\* slot for "123": a biometric slot (type 2, no scrypt fields) before it or
\* alone, none at all, a type-1 slot without scrypt fields, and a password
\* slot for "abc" before the one for "123".
AegisSlotShapes ==
    { "password", "biometric first", "biometric only", "no slots",
      "no scrypt fields", "two passwords" }

AegisBackupWith(entries, shape) ==
    LET base == AegisBackup(entries, TRUE)
        pw == base.doc.header.slots[1]
        held == GcmEncryptDetached(RandomKey("device"),
                                   Drawn("app", "bio_nonce"), RandomKey("app"))
        bio == [type |-> 2, uuid |-> Drawn("app", "bio"), key |-> held.data,
                key_params |-> [nonce |-> Drawn("app", "bio_nonce"),
                                tag |-> held.tag],
                password_slot |-> JAbsent]
        wrapped == GcmEncryptDetached(
                       DerivedKey("scrypt", "abc", Drawn("app", "salt2"),
                                  << AEGIS_LOG_N, AEGIS_R, AEGIS_P >>),
                       Drawn("app", "slot2_nonce"), RandomKey("app"))
        second == [pw EXCEPT
                      !.uuid = Drawn("app", "slot2"),
                      !.key = wrapped.data,
                      !.key_params = [nonce |-> Drawn("app", "slot2_nonce"),
                                      tag |-> wrapped.tag],
                      !.password_slot.v.salt = Drawn("app", "salt2")]
    IN  [base EXCEPT !.doc.header.slots =
            CASE shape = "password" -> << pw >>
              [] shape = "biometric first" -> << bio, pw >>
              [] shape = "biometric only" -> << bio >>
              [] shape = "no slots" -> << >>
              [] shape = "no scrypt fields" ->
                    << bio, [pw EXCEPT !.password_slot = JAbsent] >>
              [] shape = "two passwords" -> << bio, second, pw >>]

AndotpBackup(entries, enc) ==
    IF enc
    THEN andotp_encrypt(entries, AndotpJsonLen(Len(entries)), "123", "app").val
    ELSE [enc |-> FALSE, len |-> AndotpJsonLen(Len(entries)), doc |-> entries]

AuthproBackup(entries, links, enc) ==
    LET json == [Authenticators |-> entries,
                 Categories |-> AuthproBackupCategories,
                 AuthenticatorCategories |-> links,
                 CustomIcons |-> << >>]
        len == AuthproJsonLen(Len(entries)) + 200
    IN  IF enc THEN authpro_encrypt(json, len, "123", "app").val
        ELSE [enc |-> FALSE, len |-> len, doc |-> json]

\* An encrypted envelope as it is, or cut off one byte before the end of its
\* fixed prefix, at the end of the prefix, or one byte after it; what is left
\* of the ciphertext of a cut envelope opens under no key.
Cuts == { "whole", "before", "at", "after" }

CutLen(cut, prefix) ==
    CASE cut = "before" -> prefix - 1
      [] cut = "at" -> prefix
      [] cut = "after" -> prefix + 1

AndotpCut(file, cut) ==
    IF cut = "whole" THEN file
    ELSE [file EXCEPT !.len = CutLen(cut, ANDOTP_HEADER_LEN),
                      !.sealed.tag = "cut"]

AuthproCut(file, cut) ==
    IF cut = "whole" THEN file
    ELSE [file EXCEPT
             !.len = CutLen(cut, AUTHPRO_HEADER_LEN + SALT_SIZE + BLOCK_SIZE),
             !.sealed.key = [kind |-> "cut"]]

\* X::load and X::save of the adapter named.
AdapterLoad(adapter, file, password) ==
    CASE adapter = "aegis" -> aegis_load(file, password)
      [] adapter = "andotp" -> andotp_load(file, password)
      [] adapter = "authpro" -> authpro_load(file, password)

AdapterSave(adapter, data, password, draw) ==
    CASE adapter = "aegis" -> aegis_save(data, password, draw)
      [] adapter = "andotp" -> andotp_save(data, password, draw)
      [] adapter = "authpro" -> authpro_save(data, password, draw)

AdInit ==
    /\ \E adapter \in Adapters, enc \in BOOLEAN, password \in AdPasswords :
          \/ /\ adapter = "aegis"
             /\ \E entries \in EntryLists(AegisBackupEntries),
                   shape \in AegisSlotShapes :
                   adCall = [adapter |-> adapter, password |-> password,
                             file |-> IF enc
                                      THEN AegisBackupWith(entries, shape)
                                      ELSE AegisBackup(entries, FALSE)]
          \/ /\ adapter = "andotp"
             /\ \E entries \in EntryLists(AndotpBackupEntries), cut \in Cuts :
                   adCall = [adapter |-> adapter, password |-> password,
                             file |-> IF enc
                                      THEN AndotpCut(AndotpBackup(entries, enc),
                                                     cut)
                                      ELSE AndotpBackup(entries, enc)]
          \/ /\ adapter = "authpro"
             /\ \E entries \in EntryLists(AuthproBackupEntries),
                   links \in AuthproBackupLinkLists, cut \in Cuts :
                   adCall = [adapter |-> adapter, password |-> password,
                             file |-> IF enc
                                      THEN AuthproCut(
                                               AuthproBackup(entries, links,
                                                             enc), cut)
                                      ELSE AuthproBackup(entries, links, enc)]
    /\ adLoaded = Pending
    /\ adSaved = Pending
    /\ adReloaded = Pending

AdIdle ==
    /\ adCall = [adapter |-> "none"]
    /\ adLoaded = Pending
    /\ adSaved = Pending
    /\ adReloaded = Pending

\* import: the backup is loaded with the password given (or none).
AdLoad ==
    /\ adLoaded = Pending
    /\ adLoaded' = AdapterLoad(adCall.adapter, adCall.file, adCall.password)
    /\ UNCHANGED <<adCall, adSaved, adReloaded>>
    /\ AdOnly

\* export: the accounts loaded are saved, with a password or without.
AdSave ==
    /\ adLoaded.kind = "ok"
    /\ adSaved = Pending
    /\ \E password \in AdPasswords, draw \in RandomDraws :
          adSaved' = [password |-> password,
                      ret |-> AdapterSave(adCall.adapter, adLoaded.val,
                                          password, draw)]
    /\ UNCHANGED <<adCall, adLoaded, adReloaded>>
    /\ AdOnly

\* import again: what was saved is loaded, with any password or none.
AdReload ==
    /\ adSaved # Pending
    /\ adSaved.ret.kind = "ok"
    /\ adReloaded = Pending
    /\ \E password \in AdPasswords :
          adReloaded' = [password |-> password,
                         ret |-> AdapterLoad(adCall.adapter, adSaved.ret.val,
                                             password)]
    /\ UNCHANGED <<adCall, adLoaded, adSaved>>
    /\ AdOnly

AdNext == AdLoad \/ AdSave \/ AdReload

-----------------------------------------------------------------------------
(* The program in use on an opened store: `otti show`, or the interface    *)
(* and its keys                                                            *)

MaxTicks == 2       \* seconds that pass while the interface runs
MaxSelection == 3   \* how far Down is followed past the end of an empty list

TuiHeights == {2, 4, 9}     \* rows of the list area
TuiClocks == {0, 29}        \* seconds since the epoch at the start

\* The issuers and labels asked of show.
ShowIssuers == { << >>, << "T", "E", "S", "T" >>, << "m", "e" >> }
ShowLabels == { None, Some(<< "M" >>), Some(<< "x" >>) }

TuiInit ==
    /\ \E accounts \in AccountLists, build \in Builds, height \in TuiHeights,
          clock \in TuiClocks :
          tui = [status |-> "closed", accounts |-> accounts, build |-> build,
                 height |-> height, clock |-> clock, ticks |-> 0,
                 counter |-> 0,
                 list_state |-> [selection |-> 0, scroll_pos |-> 0],
                 showing |-> "None", otp_code |-> << >>,
                 clipboard |-> None, copied |-> 0, copied_at |-> 0]
    /\ shown = Pending

TuiIdle ==
    /\ tui = [status |-> "none"]
    /\ shown = Pending

\* otti show <issuer> [label]
ShowCmd ==
    /\ tui.status = "closed"
    /\ shown = Pending
    /\ \E issuer \in ShowIssuers, label \in ShowLabels :
          shown' = show(tui.accounts, issuer, label, tui.clock, tui.build)
    /\ UNCHANGED tui
    /\ TuiOnly

\* otti: run up to the first frame and the wait for an event.
Run ==
    /\ tui.status = "closed"
    /\ shown = Pending
    /\ tui' = LoopTop([tui EXCEPT !.counter = 30 - (tui.clock % 30)])
    /\ UNCHANGED shown
    /\ TuiOnly

\* The loop after an event: around to the next frame and wait, unless the
\* event ended it.
Around(t) == IF t.status = "running" THEN LoopTop(t) ELSE t

\* The ticker fires a second later.
Tick ==
    /\ tui.status = "running"
    /\ tui.ticks < MaxTicks
    /\ tui' = Around([tui EXCEPT !.clock = tui.clock + 1,
                                 !.ticks = tui.ticks + 1,
                                 !.counter = 30 - ((tui.clock + 1) % 30)])
    /\ UNCHANGED shown
    /\ TuiOnly

\* The terminal is resized while the loop waits: the listener drops the
\* event, and the next frame asks for the size again.
Resize ==
    /\ tui.status = "running"
    /\ \E height \in TuiHeights \ {tui.height} :
          tui' = [tui EXCEPT !.height = height]
    /\ UNCHANGED shown
    /\ TuiOnly

\* Esc or 'q'
KeyQuit ==
    /\ tui.status = "running"
    /\ tui' = [tui EXCEPT !.status = "quit"]
    /\ UNCHANGED shown
    /\ TuiOnly

KeyUp ==
    /\ tui.status = "running"
    /\ tui' = Around([tui EXCEPT !.list_state = ListUp(tui.list_state)])
    /\ UNCHANGED shown
    /\ TuiOnly

KeyDown ==
    /\ tui.status = "running"
    /\ tui.list_state.selection < MaxSelection
    /\ LET down == ListDown(tui.list_state, Len(tui.accounts), tui.build)
       IN  tui' = IF down.kind = "panic" THEN [tui EXCEPT !.status = "panic"]
                  ELSE Around([tui EXCEPT !.list_state = down.val])
    /\ UNCHANGED shown
    /\ TuiOnly

\* 'h'
KeyHelp ==
    /\ tui.status = "running"
    /\ tui' = Around([tui EXCEPT
                         !.showing = toggle_dialog(tui.showing, "Help")])
    /\ UNCHANGED shown
    /\ TuiOnly

\* 's'
KeyShow ==
    /\ tui.status = "running"
    /\ tui' = Around([tui EXCEPT
                         !.showing = toggle_dialog(tui.showing, "Code")])
    /\ UNCHANGED shown
    /\ TuiOnly

\* 'c': the code of the selected account goes to the clipboard.
KeyCopy ==
    /\ tui.status = "running"
    /\ LET selected == tui.list_state.selection + 1
           code == CodeFor(tui.accounts[selected], tui.clock, tui.build)
       IN  tui' = IF selected > Len(tui.accounts) THEN Around(tui)
                  ELSE IF code.kind = "err" THEN [tui EXCEPT !.status = "error"]
                  ELSE IF code.kind = "panic"
                  THEN [tui EXCEPT !.status = "panic"]
                  ELSE Around([tui EXCEPT
                                  !.clipboard = Some(Display(code.val)),
                                  !.copied = selected,
                                  !.copied_at = tui.clock])
    /\ UNCHANGED shown
    /\ TuiOnly

\* Any other key.
KeyOther ==
    /\ tui.status = "running"
    /\ tui' = Around(tui)
    /\ UNCHANGED shown
    /\ TuiOnly

TuiNext ==
    \/ ShowCmd \/ Run \/ Tick \/ Resize \/ KeyQuit \/ KeyUp \/ KeyDown
    \/ KeyHelp \/ KeyShow \/ KeyCopy \/ KeyOther

-----------------------------------------------------------------------------
(* The URI parser in use: a text is drawn, parsed, and a code is generated  *)
(* for the account it gave                                                 *)

UrlSchemes ==
    { << "o", "t", "p", "a", "u", "t", "h" >>,
      << "O", "T", "P", "A", "U", "T", "H" >>,
      << "h", "t", "t", "p" >>,
      << >> }

UrlAuthorities ==
    { None,
      Some(<< >>),
      Some(<< "t", "o", "t", "p" >>),
      Some(<< "T", "O", "T", "P" >>),
      Some(<< "h", "o", "t", "p" >>),
      Some(<< "S", "t", "e", "a", "m" >>),
      Some(<< "m", "o", "t", "p" >>),
      Some(<< "t", "o", " ", "t", "p" >>) }

UrlPaths ==
    { << >>,
      << "/" >>,
      << "/", "m", "e" >>,
      << "/", "T", "e", "s", "t", "%", "2", "0", "T", "h", "i", "s", ":", "m",
          "e" >>,
      << "/", "a", ":", "b", ":", "c" >>,
      << "/", "a", "%", "3", "A", "b" >>,
      << "/", ":", "m", "e" >>,
      << "/", "%", "F", "F" >>,
      << "/", "x", "%", "2" >> }

UrlQueries ==
    { None,
      Some(<< << "secret", << "J", "B", "S", "W", "Y", "3", "D", "P", "E",
          "H", "P", "K", "3", "P", "X", "P" >> >> >>),
      Some(<< << "secret", << "J", "B", "S", "W", "Y", "3", "D", "P", "E",
          "H", "P", "K", "3", "P", "X", "P" >> >>, << "algorithm", << "s",
          "h", "a", "2", "5", "6" >> >>, << "digits", << "8" >> >>, <<
          "period", << "6", "0" >> >> >>),
      Some(<< << "digits", << "7" >> >>, << "secret", << "J", "B", "S", "Q" >>
          >> >>),
      Some(<< << "secret", << "J", "B", "S", "Q" >> >>, << "issuer", << "Q",
          "+", "R", "%", "2", "1" >> >> >>),
      Some(<< << "secret", << "J", "B", "S", "Q" >> >>, << "issuer", << >> >>
          >>),
      Some(<< << "secret", << "J", "B", "S", "Q" >> >>, << "counter", << "2"
          >> >>, << "digits", << "0" >> >> >>),
      Some(<< << "digits", << "8" >> >> >>),
      Some(<< << "secret", << "j", "b", "s", "q" >> >> >>),
      Some(<< << "secret", << "J", "B", "S", "Q" >> >>, << "digits", << "2",
          "5", "6" >> >> >>),
      Some(<< << "secret", << "J", "B", "S", "Q" >> >>, << "algorithm", <<
          "m", "d", "5" >> >> >>) }

\* The texts drawn, by their parts; "http:" without "//" is left out (the
\* url crate then looks for the host in the path).
UrlInputs ==
    { u \in [scheme : UrlSchemes, authority : UrlAuthorities,
             path : UrlPaths, query : UrlQueries] :
        u.scheme \in SpecialSchemes => u.authority.some }

UrlClocks == {0, 59}

UrlInit ==
    /\ urlCall \in UrlInputs
    /\ urlRet = Pending
    /\ urlCode = Pending

UrlIdle ==
    /\ urlCall = [scheme |-> "none"]
    /\ urlRet = Pending
    /\ urlCode = Pending

\* Account::from_str
Parse ==
    /\ urlRet = Pending
    /\ urlRet' = parse(urlCall)
    /\ UNCHANGED <<urlCall, urlCode>>
    /\ UrlOnly

\* generate for the parsed account, under its algorithm, with its digit count
\* or with none.
GenerateFor ==
    /\ urlRet.kind = "ok"
    /\ urlCode = Pending
    /\ \E digits \in {None, Some(urlRet.val.digits)}, clock \in UrlClocks,
          build \in Builds :
          urlCode' = [kind |-> "returned", digits |-> digits,
                      ret |-> generate(urlRet.val.algorithm, urlRet.val.secret,
                                       urlRet.val.otp, digits, clock, build)]
    /\ UNCHANGED <<urlCall, urlRet>>
    /\ UrlOnly

UrlNext == Parse \/ GenerateFor

-----------------------------------------------------------------------------
(* otti-core: the secret key holder (key.rs) and the lives of its buffers  *)

MaxKeys == 2        \* buffers on the heap that keys can own

\* The secrets of the accounts above, one zero byte, and no bytes.
KeyContents == { << >>, << 0 >>, << 72, 101 >>, << 0, 255, 1 >> }

KeyCallers == { "generate", "serialize", "export" }

\* A buffer no key has owned yet, the buffer of Key(content), and a buffer
\* given back to the allocator, which keeps the bytes written last.
NoBuffer == [life |-> "none", mem |-> << >>, why |-> "none"]

\* Key::new: the key takes the vector as it is.
KeyNew(content) == [life |-> "alive", mem |-> content, why |-> "none"]

\* Zeroize for Vec<u8> leaves the bytes as they are.
KeyZeroizeNothing(k) == k

\* impl Zeroize for Key: Vec<u8>::zeroize writes zero over every byte.
KeyZeroize(k) == [k EXCEPT !.mem = [i \in 1..Len(k.mem) |-> 0]]

\* impl Drop for Key: zeroize, after which the vector is freed.
KeyDrop(k, why) == [KeyZeroize(k) EXCEPT !.life = "released", !.why = why]

\* impl ExposeSecret<Vec<u8>> for Key
expose_secret(k) == k.mem

Keys == 1..MaxKeys

FreeBuffers == { b \in Keys : keyBuf[b].life # "alive" }

KeyInit ==
    /\ keyBuf = [b \in Keys |-> NoBuffer]
    /\ keySeen = Pending

KeyIdle ==
    /\ keyBuf = << >>
    /\ keySeen = Pending

\* An account is made (parsed, converted or read from the store): its
\* secret goes into a key.
MakeKey ==
    /\ \E b \in FreeBuffers, content \in KeyContents :
          keyBuf' = [keyBuf EXCEPT ![b] = KeyNew(content)]
    /\ UNCHANGED keySeen
    /\ KeyOnly

\* The generator or a serializer reads the secret of an account it borrows.
ExposeKey ==
    /\ \E b \in Keys, by \in KeyCallers :
          /\ keyBuf[b].life = "alive"
          /\ keySeen' = [key |-> b, by |-> by, via |-> "expose_secret",
                         bytes |-> expose_secret(keyBuf[b])]
    /\ UNCHANGED keyBuf
    /\ KeyOnly

\* import, export, show and run return: the account list goes out of scope
\* and every account in it is dropped.
DropAccounts ==
    /\ \E b \in Keys : keyBuf[b].life = "alive"
    /\ keyBuf' = [b \in Keys |->
                     IF keyBuf[b].life = "alive" THEN KeyDrop(keyBuf[b], "exit")
                     ELSE keyBuf[b]]
    /\ UNCHANGED keySeen
    /\ KeyOnly

\* A conversion fails after its key was made (TryFrom for an mOTP
\* authenticator): that key and the accounts collected before it are
\* dropped.
FailConversion ==
    /\ \E f \in FreeBuffers, content \in KeyContents :
          keyBuf' = [b \in Keys |->
                        IF b = f THEN KeyDrop(KeyNew(content), "failed import")
                        ELSE IF keyBuf[b].life = "alive"
                        THEN KeyDrop(keyBuf[b], "failed import")
                        ELSE keyBuf[b]]
    /\ UNCHANGED keySeen
    /\ KeyOnly

\* The secret of an account is assigned a new key: the old one is dropped.
ReplaceKey ==
    /\ \E b \in Keys, f \in FreeBuffers, content \in KeyContents :
          /\ keyBuf[b].life = "alive"
          /\ keyBuf' = [keyBuf EXCEPT ![f] = KeyNew(content),
                                      ![b] = KeyDrop(keyBuf[b], "replaced")]
    /\ UNCHANGED keySeen
    /\ KeyOnly

KeyNext ==
    MakeKey \/ ExposeKey \/ DropAccounts \/ FailConversion \/ ReplaceKey

-----------------------------------------------------------------------------
(* otti-store: the module aead.rs, byte by byte.  A byte of a buffer is a  *)
(* plain byte, a byte of a nonce, a byte of a tag, or what the stream      *)
(* cipher makes of a plain byte at a position under a key and a nonce.     *)

MaxData == 3        \* bytes of data handed to seal

Plain(v) == [t |-> "plain", v |-> v]
NonceByte(nonce, at) == [t |-> "nonce", nonce |-> nonce, at |-> at]
CipherByte(key, nonce, at, v) ==
    [t |-> "cipher", key |-> key, nonce |-> nonce, at |-> at, v |-> v]
TagByte(key, nonce, over, at) ==
    [t |-> "tag", key |-> key, nonce |-> nonce, over |-> over, at |-> at]

\* XChaCha20Poly1305::generate_nonce: 24 bytes.
NonceBytes(nonce) == [j \in 1..NONCE_SIZE |-> NonceByte(nonce, j)]

\* The stream cipher over a buffer of plain bytes, in place.
XChaCha20(key, nonce, buffer) ==
    [i \in 1..Len(buffer) |-> CipherByte(key, nonce, i, buffer[i].v)]

\* Poly1305 over a ciphertext (no associated data): 16 bytes that depend on
\* every byte of it and on its length.
Poly1305(key, nonce, ciphertext) ==
    [j \in 1..TAG_SIZE |-> TagByte(key, nonce, ciphertext, j)]

\* buf[from..].copy_from_slice(bytes)
CopyAt(buf, from, bytes) ==
    [i \in 1..Len(buf) |->
        IF i >= from /\ i < from + Len(bytes) THEN bytes[i - from + 1]
        ELSE buf[i]]

\* XChaCha20Poly1305::new_from_slice takes a key of 32 bytes and no other.
NewFromSlice(key) ==
    IF key.len = 32 THEN Ok(key.id) ELSE Err([tag |-> "Crypto"])

\* aead.rs seal: buf is len(data) + 24 + 16 zero bytes; all of it after
\* the first 24 bytes is encrypted in place, which returns the tag; the
\* nonce is copied to the front and the tag to the last 16 bytes.
aead_rs_seal(key, data, nonce) ==
    LET cipher == NewFromSlice(key)
        buf == [i \in 1..(Len(data) + NONCE_SIZE + TAG_SIZE) |-> Plain(0)]
        region == SubSeq(buf, NONCE_SIZE + 1, Len(buf))
        encrypted == XChaCha20(cipher.val, nonce, region)
        tag == Poly1305(cipher.val, nonce, encrypted)
        afterEncrypt == CopyAt(buf, NONCE_SIZE + 1, encrypted)
        afterNonce == CopyAt(afterEncrypt, 1, NonceBytes(nonce))
    IN  IF cipher.kind = "err" THEN cipher
        ELSE Ok(CopyAt(afterNonce, NONCE_SIZE + Len(data) + 1, tag))

\* Aead::decrypt: the last 16 bytes are the tag of the bytes before them;
\* the plain bytes come out where the tag verifies.
XChaCha20Poly1305Decrypt(key, nonce, payload) ==
    LET m == Len(payload) - TAG_SIZE
        ciphertext == SubSeq(payload, 1, m)
        tag == SubSeq(payload, m + 1, Len(payload))
    IN  IF Len(payload) < TAG_SIZE THEN Err([tag |-> "Crypto"])
        ELSE IF tag # Poly1305(key, nonce, ciphertext)
        THEN Err([tag |-> "Crypto"])
        ELSE Ok([i \in 1..m |-> ciphertext[i].v])

\* aead.rs open: the first 24 bytes are the nonce (slicing them off aborts
\* on a shorter input), the rest goes to decrypt.
aead_rs_open(key, data) ==
    LET cipher == NewFromSlice(key)
    IN  IF cipher.kind = "err" THEN cipher
        ELSE IF Len(data) < NONCE_SIZE
        THEN Panic("range end index 24 out of range for slice")
        ELSE XChaCha20Poly1305Decrypt(cipher.val, data[1].nonce,
                                      SubSeq(data, NONCE_SIZE + 1, Len(data)))

AeadKeys ==
    { [len |-> 32, id |-> "k1"], [len |-> 32, id |-> "k2"],
      [len |-> 16, id |-> "k3"] }

AeadBytes == { 0, 7 }

AeadData == UNION { [1..n -> AeadBytes] : n \in 0..MaxData }

AeadNonces == { "n1", "n2" }

\* How much of the blob is handed to open: all of it, nothing, less than a
\* nonce, or a nonce and less than a tag.
AeadTakes == { "all", "nothing", "nonce only", "no tag" }

Taken(blob, take) ==
    CASE take = "all" -> blob
      [] take = "nothing" -> << >>
      [] take = "nonce only" -> SubSeq(blob, 1, NONCE_SIZE)
      [] take = "no tag" -> SubSeq(blob, 1, NONCE_SIZE + 1)

AeadInit ==
    /\ aeadCall \in [key : AeadKeys, data : AeadData]
    /\ aeadBlob = Pending
    /\ aeadOpened = Pending

AeadIdle ==
    /\ aeadCall = [key |-> "none"]
    /\ aeadBlob = Pending
    /\ aeadOpened = Pending

AeadSeal ==
    /\ aeadBlob = Pending
    /\ \E nonce \in AeadNonces :
          aeadBlob' = aead_rs_seal(aeadCall.key, aeadCall.data, nonce)
    /\ UNCHANGED <<aeadCall, aeadOpened>>
    /\ AeadOnly

AeadOpen ==
    /\ aeadBlob.kind = "ok"
    /\ \E key \in AeadKeys, take \in AeadTakes :
          aeadOpened' = [key |-> key, take |-> take,
                         ret |-> aead_rs_open(key, Taken(aeadBlob.val, take))]
    /\ UNCHANGED <<aeadCall, aeadBlob>>
    /\ AeadOnly

AeadNext == AeadSeal \/ AeadOpen

-----------------------------------------------------------------------------
(* otti import: the command of the binary, from the backup file to the      *)
(* sealed store (main.rs, import)                                          *)

MaxBackup == 2      \* accounts in the backup file: 0..MaxBackup

\* What the file named on the command line is: not readable, not a backup
\* the adapter loads (wrong password, damaged, an entry it rejects), or a
\* backup of so many accounts.
ImpBackups ==
    { [kind |-> "unreadable"], [kind |-> "rejected"] }
        \cup { [kind |-> "backup", accounts |-> n] : n \in 0..MaxBackup }

\* The store file before the command: none, the one sealed earlier, or a
\* file at its path that otti did not write.
ImpStores ==
    { None, Some([from |-> "earlier", accounts |-> 1]),
      Some([from |-> "elsewhere"]) }

\* What is typed at the question.
ImpReplies == { "y", "Y", "", "n", "N", "yes", "y ", "j" }

\* A consent that takes everything but a no.
OverwritesUnlessNo(resp) == resp \notin {"n", "N", ""}

\* matches!(resp.as_str(), "y" | "Y")
Overwrites(resp) == resp \in {"y", "Y"}

\* otti_store::exists: the path of the store, and whether a file is there.
exists(file, home) ==
    IF ~home THEN Err("HomefolderNotFound") ELSE Ok(file.some)

ImpDone(i, ret) == [i EXCEPT !.pc = "done", !.ret = ret]

\* println!: a line is its pieces.
ImpSay(i, line) == [i EXCEPT !.out = Append(i.out, line)]

\* "Imported {} accounts"
ImpCount(i) == << "Imported ", i.backup.accounts, " accounts" >>

ImpInit ==
    \E backup \in ImpBackups, store \in ImpStores :
       imp = [pc |-> "read", backup |-> backup, file |-> store,
              before |-> store, out |-> << >>, reply |-> None, seals |-> 0,
              ret |-> Pending]

ImpIdle == imp = [pc |-> "none"]

\* fs::read(file)?
ImpRead ==
    /\ imp.pc = "read"
    /\ imp' = IF imp.backup.kind = "unreadable"
              THEN ImpDone(imp, Err("Io"))
              ELSE [imp EXCEPT !.pc = "load"]
    /\ ImpOnly

\* provider::load(..)? and the first line printed
ImpLoad ==
    /\ imp.pc = "load"
    /\ imp' = IF imp.backup.kind = "rejected"
              THEN ImpDone(imp, Err("Load"))
              ELSE ImpSay([imp EXCEPT !.pc = "exists"], << "Opened backup file" >>)
    /\ ImpOnly

\* if otti_store::exists()? { the question } else on to the password
ImpExists ==
    /\ imp.pc = "exists"
    /\ \E home \in BOOLEAN :
          LET there == exists(imp.file, home)
          IN  imp' = IF there.kind = "err" THEN ImpDone(imp, there)
                     ELSE IF there.val
                     THEN ImpSay(ImpSay([imp EXCEPT !.pc = "asked"],
                                        << "An OTP store already exists" >>),
                                 << "Overwrite? [yN] " >>)
                     ELSE ImpSay([imp EXCEPT !.pc = "password"], ImpCount(imp))
    /\ ImpOnly

\* The reply is read (or reading it fails), and anything but y or Y ends
\* the command.
ImpReply ==
    /\ imp.pc = "asked"
    /\ \/ imp' = ImpDone(imp, Err("Io"))
       \/ \E resp \in ImpReplies :
             LET replied == [imp EXCEPT !.reply = Some(resp)]
             IN  imp' = IF ~Overwrites(resp)
                        THEN ImpDone(ImpSay(replied, << "Import cancelled" >>),
                                     Ok("unit"))
                        ELSE ImpSay([replied EXCEPT !.pc = "password"],
                                    ImpCount(imp))
    /\ ImpOnly

\* The password of the store is asked for.
ImpPassword ==
    /\ imp.pc = "password"
    /\ \/ imp' = ImpDone(imp, Err("Io"))
       \/ imp' = [imp EXCEPT !.pc = "seal"]
    /\ ImpOnly

\* otti_store::seal(&accounts, &password)?: it fails before the file is
\* created, or after (the file is then cut short), or writes the store.
ImpSeal ==
    /\ imp.pc = "seal"
    /\ LET called == [imp EXCEPT !.seals = imp.seals + 1]
       IN  \/ imp' = ImpDone(called, Err("Seal"))
           \/ imp' = ImpDone([called EXCEPT !.file = Some([from |-> "cut"])],
                             Err("Io"))
           \/ imp' = ImpDone([called EXCEPT !.file =
                                 Some([from |-> "import",
                                       accounts |-> imp.backup.accounts])],
                             Ok("unit"))
    /\ ImpOnly

ImpNext ==
    \/ ImpRead \/ ImpLoad \/ ImpExists \/ ImpReply \/ ImpPassword \/ ImpSeal

-----------------------------------------------------------------------------
(* otti: the listener thread, the channel of capacity 0 and the select of   *)
(* the TUI loop (terminal.rs, create_event_listener; main.rs, run)          *)

MaxEvents == 3      \* terminal events that arrive while the interface runs
MaxSpins == 1       \* receives followed on a channel without its sender

\* What crossterm::event::read returns: a key ('q' ends the loop, 'x' stands
\* for the other keys), an event that is no key, or an error.
EventKinds ==
    { [kind |-> "key", code |-> "q"], [kind |-> "key", code |-> "x"],
      [kind |-> "resize"], [kind |-> "error"] }

\* The events in the order the terminal delivers them, each with its place.
EventStreams ==
    UNION { { [i \in 1..n |-> [event |-> stream[i], at |-> i]] :
                stream \in [1..n -> EventKinds] } : n \in 0..MaxEvents }

\* A listener that forwards whatever it read.
IsAnyEvent(read) == read.event.kind # "error"

\* if let Event::Key(k) = event
IsKey(read) == read.event.kind = "key"

\* KeyCode::Esc | KeyCode::Char('q')
IsQuit(event) == event.kind = "key" /\ event.code = "q"

ChanInit ==
    /\ termQueue \in EventStreams
    /\ listener = [pc |-> "read", holds |-> None, sent |-> << >>]
    /\ mainLoop = [pc |-> "select", rx |-> "open", got |-> << >>,
                   ticks |-> 0, passed |-> << >>, spins |-> 0]

ChanIdle ==
    /\ termQueue = << >>
    /\ listener = [pc |-> "none"]
    /\ mainLoop = [pc |-> "none"]

\* The listener thread: crossterm::event::read() returns the next event.
\* An error ends the thread (and drops the sender); a key goes to tx.send,
\* which waits for the loop; anything else is passed over.
ListenerRead ==
    /\ listener.pc = "read"
    /\ termQueue # << >>
    /\ LET read == Head(termQueue)
       IN  listener' =
               IF read.event.kind = "error"
               THEN [listener EXCEPT !.pc = "stopped"]
               ELSE IF IsKey(read)
               THEN [listener EXCEPT !.pc = "send", !.holds = Some(read),
                                     !.sent = Append(listener.sent, read)]
               ELSE listener
    /\ termQueue' = Tail(termQueue)
    /\ UNCHANGED mainLoop
    /\ ChanOnly

\* tx.send(k).is_err(): the receiver is gone, the thread breaks.
ListenerSendFails ==
    /\ listener.pc = "send"
    /\ mainLoop.rx = "dropped"
    /\ listener' = [listener EXCEPT !.pc = "stopped", !.holds = None]
    /\ UNCHANGED <<termQueue, mainLoop>>
    /\ ChanOnly

\* select!, recv(events) with a sender waiting: the event passes from the
\* one thread to the other, the listener goes back to read, and the loop
\* handles the key ('q' breaks it, and run drops the receiver on return).
MainRecv ==
    /\ mainLoop.pc = "select"
    /\ listener.pc = "send"
    /\ LET read == listener.holds.val
           taken == [mainLoop EXCEPT !.got = Append(mainLoop.got, read)]
       IN  mainLoop' = IF IsQuit(read.event)
                       THEN [taken EXCEPT !.pc = "done", !.rx = "dropped"]
                       ELSE taken
    /\ listener' = [listener EXCEPT !.pc = "read", !.holds = None]
    /\ UNCHANGED termQueue
    /\ ChanOnly

\* select!, recv(ticker): the counter is set anew, no event is taken (the
\* keys that waited in send meanwhile are noted in passed).
MainTick ==
    /\ mainLoop.pc = "select"
    /\ mainLoop.ticks < MaxTicks
    /\ mainLoop' = [mainLoop EXCEPT
                       !.ticks = mainLoop.ticks + 1,
                       !.passed = IF listener.pc = "send"
                                  THEN Append(mainLoop.passed,
                                              listener.holds.val)
                                  ELSE mainLoop.passed]
    /\ UNCHANGED <<termQueue, listener>>
    /\ ChanOnly

\* select!, recv(events) after the listener ended: event.ok() is None and
\* the loop goes around.
MainRecvDisconnected ==
    /\ mainLoop.pc = "select"
    /\ listener.pc = "stopped"
    /\ mainLoop.spins < MaxSpins
    /\ mainLoop' = [mainLoop EXCEPT !.spins = mainLoop.spins + 1]
    /\ UNCHANGED <<termQueue, listener>>
    /\ ChanOnly

ChanNext ==
    \/ ListenerRead \/ ListenerSendFails \/ MainRecv \/ MainTick
    \/ MainRecvDisconnected

MoreIdle == KeyIdle /\ AeadIdle /\ ImpIdle /\ ChanIdle

-----------------------------------------------------------------------------
(* Specifications: one subsystem runs, the others stay idle                *)

InitGen == GenInit /\ StoreIdle /\ AdIdle /\ TuiIdle /\ UrlIdle /\ MoreIdle

SpecGen == InitGen /\ [][GenNext]_vars

InitStore == StoreInit /\ GenIdle /\ AdIdle /\ TuiIdle /\ UrlIdle /\ MoreIdle

SpecStore == InitStore /\ [][StoreNext]_vars

InitAdapter == AdInit /\ GenIdle /\ StoreIdle /\ TuiIdle /\ UrlIdle /\ MoreIdle

SpecAdapter == InitAdapter /\ [][AdNext]_vars

InitTui == TuiInit /\ GenIdle /\ StoreIdle /\ AdIdle /\ UrlIdle /\ MoreIdle

SpecTui == InitTui /\ [][TuiNext]_vars

InitUrl == UrlInit /\ GenIdle /\ StoreIdle /\ AdIdle /\ TuiIdle /\ MoreIdle

SpecUrl == InitUrl /\ [][UrlNext]_vars

InitKey ==
    /\ KeyInit /\ GenIdle /\ StoreIdle /\ AdIdle /\ TuiIdle /\ UrlIdle
    /\ AeadIdle /\ ImpIdle /\ ChanIdle

SpecKey == InitKey /\ [][KeyNext]_vars

InitAead ==
    /\ AeadInit /\ GenIdle /\ StoreIdle /\ AdIdle /\ TuiIdle /\ UrlIdle
    /\ KeyIdle /\ ImpIdle /\ ChanIdle

SpecAead == InitAead /\ [][AeadNext]_vars

InitImport ==
    /\ ImpInit /\ GenIdle /\ StoreIdle /\ AdIdle /\ TuiIdle /\ UrlIdle
    /\ KeyIdle /\ AeadIdle /\ ChanIdle

SpecImport == InitImport /\ [][ImpNext]_vars

InitChan ==
    /\ ChanInit /\ GenIdle /\ StoreIdle /\ AdIdle /\ TuiIdle /\ UrlIdle
    /\ KeyIdle /\ AeadIdle /\ ImpIdle

SpecChan == InitChan /\ [][ChanNext]_vars

-----------------------------------------------------------------------------
(* Claims about the generator (checked under SpecGen)                      *)

GenReturned == genRet # Pending

\* The digit count a generate call works with.
GenDigitsUsed ==
    IF genCall.digits.some THEN genCall.digits.val
    ELSE IF genCall.otp.type = "Steam" THEN DEFAULT_STEAM_DIGITS
    ELSE DEFAULT_DIGITS

\* C6: generate fails only by returning KeyLength or Time; for every key,
\* variant (window or period 0 included) and digit count 0..255 it returns a
\* code or one of these errors and never aborts with an arithmetic fault.
C6_GenerateNeverAborts ==
    (genCall.op = "generate" /\ GenReturned) =>
        \/ genRet.kind = "ok"
        \/ genRet.kind = "err" /\ genRet.err \in {"KeyLength", "Time"}

\* C7: a Steam code is the base-26 expansion of the masked 31-bit integer
\* itself (no reduction modulo 10^digits first), digits characters long, and
\* the alphabet has 26 distinct characters.
C7_SteamFromMaskedInteger ==
    /\ Len(STEAM_CHARS) = 26
    /\ Cardinality({ STEAM_CHARS[i] : i \in 1..Len(STEAM_CHARS) }) = 26
    /\ (/\ genCall.op = "generate"
        /\ genCall.otp.type = "Steam"
        /\ GenReturned
        /\ genRet.kind = "ok") =>
            LET m == mac(genCall.alg, genCall.key,
                         genCall.clock \div genCall.otp.period)
                o == m[20] % 16
                b0 == IF m[o + 1] >= 128 THEN m[o + 1] - 128 ELSE m[o + 1]
                masked == b0 * 16777216 + m[o + 2] * 65536
                            + m[o + 3] * 256 + m[o + 4]
                chars == genRet.val.code
            IN  /\ Len(chars) = GenDigitsUsed
                /\ \A i \in 1..Len(chars) :
                      chars[i] = STEAM_CHARS[((masked \div (26 ^ (i - 1))) % 26) + 1]

\* C8: for a 20-byte MAC and 1..9 digits, digit() takes the offset from the
\* low nibble of mac[19], reads mac[offset..offset+3] inside the 20 bytes,
\* forms the big-endian value with the top bit cleared (below 2^31) and
\* returns it modulo 10^digits; the RFC bytes with 6 digits give 872921.
C8_DynamicTruncation ==
    (genCall.op = "digit" /\ genCall.digits \in 1..9 /\ GenReturned) =>
        LET m == genCall.bytes
            o == m[20] % 16
            b0 == IF m[o + 1] >= 128 THEN m[o + 1] - 128 ELSE m[o + 1]
            masked == b0 * 16777216 + m[o + 2] * 65536
                        + m[o + 3] * 256 + m[o + 4]
        IN  /\ o <= 15
            /\ DigitReads(m) = o..(o + 3)
            /\ DigitReads(m) \subseteq 0..19
            /\ masked <= 2147483647
            /\ genRet = Ok(masked % (10 ^ genCall.digits))
            /\ genRet.val < 10 ^ genCall.digits
            /\ (m = RfcMac /\ genCall.digits = 6) => genRet.val = 872921

C8_Witness ==
    /\ genCall.op = "digit"
    /\ genCall.bytes = RfcMac
    /\ genCall.digits = 6
    /\ genRet = Ok(872921)

\* What generate returns for Hotp when the MAC is taken over the counter as
\* given.
HotpDirect ==
    LET h == digit(mac(genCall.alg, genCall.key, genCall.otp.counter),
                   GenDigitsUsed, genCall.build)
    IN  IF h.kind = "ok"
        THEN Ok(OtpCode(U32ToString(h.val), GenDigitsUsed))
        ELSE h

\* C11: a call of generate leaves key and Otp value as they were; for Hotp
\* the code is that of the counter as given; a second call with the same key,
\* variant and digit count, and for Totp and Steam the same clock reading,
\* returns what the first returned.
C11_GeneratePure ==
    [][/\ CallGenerate =>
            /\ genCall' = genCall
            /\ genCall.otp.type = "Hotp" => genRet' = HotpDirect
       /\ CallAgain =>
            /\ genCall' = genCall
            /\ (genCall.otp.type = "Hotp" \/ genAgain'.clock = genCall.clock)
                  => genAgain'.ret = genRet]_vars

C11_Witness ==
    /\ genCall.op = "generate"
    /\ genCall.otp = Hotp(2)
    /\ genRet.kind = "ok"
    /\ genAgain # Pending
    /\ genAgain.clock # genCall.clock
    /\ genAgain.ret = genRet

\* The window or period of a time-based call.
GenWindow ==
    IF genCall.otp.type = "Totp" THEN genCall.otp.window
    ELSE genCall.otp.period

TimeBased ==
    /\ genCall.op = "generate"
    /\ genCall.otp.type \in {"Totp", "Steam"}
    /\ genCall.clock >= 0
    /\ GenWindow > 0
    /\ GenReturned

\* C12: for window > 0 the Totp code at clock time t is the Hotp code for
\* the counter floor(t / window), and a Steam code is the base-26 expansion
\* of the integer Hotp yields for floor(t / period); a second reading of the
\* clock inside the same window gives the same code.
C12_TimeCounter ==
    /\ (TimeBased /\ genCall.otp.type = "Totp") =>
          genRet = generate(genCall.alg, genCall.key,
                            Hotp(genCall.clock \div GenWindow),
                            genCall.digits, 0, genCall.build)
    /\ (TimeBased /\ genCall.otp.type = "Steam") =>
          LET h == generate_hotp(genCall.alg, genCall.key,
                                 genCall.clock \div GenWindow,
                                 GenDigitsUsed, genCall.build)
          IN  genRet = IF h.kind = "ok"
                       THEN Ok(OtpCode(SteamLoop(h.val, GenDigitsUsed),
                                       GenDigitsUsed))
                       ELSE h
    /\ (/\ TimeBased
        /\ genAgain # Pending
        /\ genAgain.clock >= 0
        /\ genAgain.clock \div GenWindow = genCall.clock \div GenWindow)
          => genAgain.ret = genRet

\* Two readings one second apart inside one window of two seconds.
C12_Witness ==
    /\ TimeBased
    /\ genCall.otp = Totp(2)
    /\ genCall.clock = 2
    /\ genRet.kind = "ok"
    /\ genAgain # Pending
    /\ genAgain.clock = 3
    /\ genAgain.ret = genRet
    /\ genRet # generate(genCall.alg, genCall.key, Hotp(0), genCall.digits, 0,
                         genCall.build)

\* C14: the displayed code has max(len(code), digits) characters, ends with
\* the code as it is, and has only '0' before it; "123" with 6 digits
\* displays as "000123".
C14_DisplayPadsLeft ==
    (genCall.op = "display" /\ GenReturned) =>
        LET text == genRet.val
            pad == Len(text) - Len(genCall.code)
        IN  /\ genRet.kind = "ok"
            /\ Len(text) = Max(Len(genCall.code), genCall.digits)
            /\ SubSeq(text, pad + 1, Len(text)) = genCall.code
            /\ \A i \in 1..pad : text[i] = "0"
            /\ (genCall.code = << "1", "2", "3" >> /\ genCall.digits = 6) =>
                  text = << "0", "0", "0", "1", "2", "3" >>

C14_Witness ==
    /\ genCall.op = "display"
    /\ genCall.code = << "1", "2", "3" >>
    /\ genCall.digits = 6
    /\ genRet = Ok(<< "0", "0", "0", "1", "2", "3" >>)

\* A code longer than its digit count is displayed whole.
C14_WitnessLonger ==
    /\ genCall.op = "display"
    /\ genCall.code = << "P", "8", "C", "4", "2" >>
    /\ genCall.digits = 3
    /\ genRet = Ok(<< "P", "8", "C", "4", "2" >>)

-----------------------------------------------------------------------------
(* Claims about the native store (checked under SpecStore)                 *)

\* The file on disk is the one the last successful seal wrote, and open has
\* been called on it since.
OpenedSealed == storeOrigin.by = "seal" /\ lastOpen.done

\* The file on disk has the version header of V1 and open has been called
\* on it since.
OpenedPastHeader ==
    /\ lastOpen.done
    /\ storeFile.exists
    /\ storeFile.header = << 1, 0 >>

C2_WrongPasswordInvalid ==
    (OpenedSealed /\ lastOpen.password # storeOrigin.password) =>
        lastOpen.ret = Err([tag |-> "InvalidPassword"])

C4_VersionGate ==
    (lastOpen.done /\ storeFile.exists /\ Len(storeFile.header) = 2) =>
        LET v == storeFile.header[1] + 256 * storeFile.header[2]
            ran == { lastOpen.steps[i] : i \in 1..Len(lastOpen.steps) }
        IN  /\ v # 1 =>
                /\ lastOpen.ret.kind = "err"
                /\ lastOpen.ret.err.tag \in
                      {"UnknownVersion", "UnsupportedVersion"}
                /\ lastOpen.ret.err.v = v
                /\ lastOpen.steps = << "read_version" >>
            /\ ran \cap {"decode_record", "kdf", "aead"} # {} => v = 1

C4_Witness ==
    /\ lastOpen.done
    /\ storeFile.exists
    /\ storeFile.header = << 255, 255 >>
    /\ lastOpen.ret = Err([tag |-> "UnknownVersion", v |-> 65535])
    /\ lastOpen.steps = << "read_version" >>

-----------------------------------------------------------------------------
(* Claims about the adapters (checked under SpecAdapter)                   *)

\* A list that load returned was saved, and what was saved has been loaded
\* with the password it was saved with (or without one, as it was saved).
RoundTripped ==
    /\ adLoaded.kind = "ok"
    /\ adSaved # Pending
    /\ adReloaded # Pending
    /\ adReloaded.password = adSaved.password

\* The accounts with their tags removed.
WithoutTags(accounts) ==
    [i \in 1..Len(accounts) |-> [accounts[i] EXCEPT !.meta.tags = << >>]]

\* C5 as stated: for each of Aegis, andOTP and AuthPro, with and without a
\* password, saving a loaded list L and loading it again succeeds and
\* returns a list equal to L, tags included.
C5_AdapterRoundTrip ==
    RoundTripped =>
        /\ adSaved.ret.kind = "ok"
        /\ adReloaded.ret = Ok(adLoaded.val)

\* C5: with and without a password, saving a loaded list L and loading it
\* again succeeds; for Aegis and andOTP it returns a list equal to L (label,
\* secret, digits, OTP variant and its counter or period, algorithm, issuer,
\* tags, extras); for AuthPro it returns L with every account's tags empty,
\* since save writes no categories.
C5_RoundTripButAuthproTags ==
    RoundTripped =>
        /\ adSaved.ret.kind = "ok"
        /\ adCall.adapter \in {"aegis", "andotp"} =>
              adReloaded.ret = Ok(adLoaded.val)
        /\ adCall.adapter = "authpro" =>
              adReloaded.ret = Ok(WithoutTags(adLoaded.val))

C5_Witness ==
    /\ RoundTripped
    /\ adCall.adapter = "authpro"
    /\ adSaved.password = Some("abc")
    /\ Len(adLoaded.val) = 2
    /\ adLoaded.val[1].meta.tags = << "Tag 1", "Tag 2" >>
    /\ adLoaded.val[1].otp = Hotp(1)
    /\ adReloaded.ret.kind = "ok"
    /\ adReloaded.ret.val[1].meta.tags = << >>
    /\ adReloaded.ret.val[1].otp = Hotp(1)

\* An encrypted Aegis export was saved.
AegisSealed ==
    /\ adCall.adapter = "aegis"
    /\ adSaved # Pending
    /\ adSaved.password.some
    /\ adSaved.ret.kind = "ok"

\* The vault JSON d that save handed to encrypt, recomputed from the accounts
\* and the draw that named the entries.
AegisVaultSaved ==
    LET draw == adSaved.ret.val.doc.header.slots[1].uuid.draw
    IN  [version |-> 2,
         entries |-> [i \in 1..Len(adLoaded.val) |->
             AegisSerializeEntry(
                 AegisEntryFromAccount(adLoaded.val[i], Drawn(draw, i)))]]

\* C17: an encrypted Aegis export has exactly one slot, of type 1, with the
\* scrypt parameters stored as N = 32768, r = 8, p = 1; scrypt with log2 of
\* the stored N (15) gives the key that unwraps the data key under the slot's
\* nonce and tag, the data key decrypts db under header.params' nonce and
\* tag, and decrypt with the password of encrypt returns the vault JSON.
C17_AegisKeyHierarchy ==
    AegisSealed =>
        LET export == adSaved.ret.val.doc
            slot == export.header.slots[1]
            ps == slot.password_slot.v
            key == DerivedKey("scrypt", adSaved.password.val, ps.salt,
                              << 15, 8, 1 >>)
            data_key == GcmDecryptDetached(key, slot.key_params.nonce,
                                           slot.key, slot.key_params.tag)
        IN  /\ Len(export.header.slots) = 1
            /\ slot.type = 1
            /\ slot.password_slot.t = "val"
            /\ ps.n = 32768 /\ ps.r = 8 /\ ps.p = 1
            /\ data_key.kind = "ok"
            /\ GcmDecryptDetached(data_key.val, export.header.params.nonce,
                                  export.db, export.header.params.tag)
                  = Ok(AegisVaultSaved)
            /\ aegis_decrypt(adSaved.ret.val, adSaved.password.val)
                  = Ok(AegisVaultSaved)
            /\ (adReloaded # Pending /\ adReloaded.password = adSaved.password)
                  => adReloaded.ret.kind = "ok"

C17_Witness ==
    /\ AegisSealed
    /\ adSaved.password = Some("abc")
    /\ Len(adLoaded.val) = 2
    /\ adReloaded # Pending
    /\ adReloaded.password = Some("abc")
    /\ adReloaded.ret = Ok(adLoaded.val)

\* Another password does not open it.
C17_WitnessOtherPassword ==
    /\ AegisSealed
    /\ adSaved.password = Some("abc")
    /\ adReloaded # Pending
    /\ adReloaded.password = Some("123")
    /\ adReloaded.ret = Err([tag |-> "Aead"])

\* An encrypted Aegis backup was loaded with a password.
AegisOpened ==
    /\ adCall.adapter = "aegis"
    /\ adCall.file.enc
    /\ adCall.password.some
    /\ adLoaded # Pending

\* The slots of the backup before slot i are all of another type than 1.
FirstPasswordSlot(i) ==
    LET slots == adCall.file.doc.header.slots
    IN  /\ i \in 1..Len(slots)
        /\ slots[i].type = 1
        /\ \A k \in 1..(i - 1) : slots[k].type # 1

\* C18: load with a password works with the first slot of type 1 alone (the
\* slots before it, of other types, and the slots after it change nothing),
\* and fails with NoPasswordEntry, whatever the password, when no slot has
\* type 1 or when that slot has no scrypt fields.
C18_PasswordSlotChosen ==
    AegisOpened =>
        LET slots == adCall.file.doc.header.slots
        IN  /\ (\A i \in 1..Len(slots) : slots[i].type # 1) =>
                  adLoaded = Err([tag |-> "NoPasswordEntry"])
            /\ \A i \in 1..Len(slots) : FirstPasswordSlot(i) =>
                  IF slots[i].password_slot.t # "val"
                  THEN adLoaded = Err([tag |-> "NoPasswordEntry"])
                  ELSE adLoaded = aegis_load(
                           [adCall.file EXCEPT
                               !.doc.header.slots = << slots[i] >>],
                           adCall.password)

\* A biometric slot, then the slot of "abc", then the slot of "123": "abc"
\* opens the backup.
C18_Witness ==
    /\ AegisOpened
    /\ Len(adCall.file.doc.header.slots) = 3
    /\ FirstPasswordSlot(2)
    /\ adCall.password = Some("abc")
    /\ adLoaded.kind = "ok"
    /\ Len(adLoaded.val) = 2

\* The same backup does not open with "123", the password of the later slot.
C18_WitnessLaterSlot ==
    /\ AegisOpened
    /\ Len(adCall.file.doc.header.slots) = 3
    /\ adCall.password = Some("123")
    /\ adLoaded = Err([tag |-> "Aead"])

\* No slot of type 1, and a slot of type 1 without scrypt fields.
C18_WitnessNoEntry ==
    /\ AegisOpened
    /\ adLoaded = Err([tag |-> "NoPasswordEntry"])
    /\ \/ adCall.file.doc.header.slots = << >>
       \/ /\ Len(adCall.file.doc.header.slots) = 2
          /\ FirstPasswordSlot(2)

\* The entries of the vault in an Aegis export, plain or encrypted.
AegisEntriesOf(file) ==
    IF file.enc THEN file.doc.db.plain.entries ELSE file.doc.db.entries

\* The aegis/note extra of an account.
NoteOf(account) == ExtrasGet(account.extras, "aegis/note")

AegisImported == adCall.adapter = "aegis" /\ adLoaded.kind = "ok"

AegisExported ==
    /\ AegisImported
    /\ adSaved # Pending
    /\ adSaved.ret.kind = "ok"

AegisImportedAgain ==
    /\ AegisExported
    /\ adReloaded # Pending
    /\ adReloaded.ret.kind = "ok"

\* C20: importing an Aegis entry with the empty note stores no aegis/note
\* extra and importing one with a note stores the note's bytes under
\* aegis/note; exporting an account without the extra writes the note "";
\* and importing what was exported gives every account the aegis/note extra
\* it had, absent or a text.
C20_AegisNote ==
    /\ AegisImported =>
          \A i \in 1..Len(adLoaded.val) :
             LET note == AegisEntriesOf(adCall.file)[i].note
             IN  NoteOf(adLoaded.val[i])
                    = IF note = << >> THEN None ELSE Some(note)
    /\ AegisExported =>
          \A i \in 1..Len(adLoaded.val) :
             ~NoteOf(adLoaded.val[i]).some =>
                 AegisEntriesOf(adSaved.ret.val)[i].note = << >>
    /\ AegisImportedAgain =>
          /\ Len(adReloaded.ret.val) = Len(adLoaded.val)
          /\ \A i \in 1..Len(adLoaded.val) :
                NoteOf(adReloaded.ret.val[i]) = NoteOf(adLoaded.val[i])

\* Both cases at once: an account without a note and one with the note "t"
\* went out and came back.
C20_Witness ==
    /\ AegisImportedAgain
    /\ \E i, j \in 1..Len(adLoaded.val) :
          /\ NoteOf(adLoaded.val[i]) = None
          /\ AegisEntriesOf(adSaved.ret.val)[i].note = << >>
          /\ NoteOf(adReloaded.ret.val[i]) = None
          /\ NoteOf(adLoaded.val[j]) = Some(<< 116 >>)
          /\ AegisEntriesOf(adSaved.ret.val)[j].note = << 116 >>
          /\ NoteOf(adReloaded.ret.val[j]) = Some(<< 116 >>)

\* The JSON document of an Authenticator Pro backup, plain or encrypted.
AuthproDocOf(file) == IF file.enc THEN file.sealed.plain ELSE file.doc

AuthproImported == adCall.adapter = "authpro" /\ adLoaded.kind = "ok"

\* Row by row: the name of the category with the row's id, for the rows
\* with this secret whose id is the id of a category.
RECURSIVE NamesByRows(_, _, _)
NamesByRows(rows, secret, cats) ==
    IF rows = << >> THEN << >>
    ELSE LET row == Head(rows)
             named == { c \in 1..Len(cats) : cats[c].Id = row.CategoryId }
         IN  (IF Base32Decode(row.AuthenticatorSecret) = Ok(secret)
                    /\ named # {}
              THEN << cats[CHOOSE c \in named : TRUE].Name >>
              ELSE << >>)
                 \o NamesByRows(Tail(rows), secret, cats)

\* C21: the tags of every account imported from Authenticator Pro are the
\* names of the categories named by the link rows that carry the
\* authenticator's secret, in the order of the rows; a row with an unknown
\* category id adds nothing, and without a matching row the tags are empty.
C21_AuthproTagsByRows ==
    AuthproImported =>
        LET doc == AuthproDocOf(adCall.file)
        IN  /\ Len(adLoaded.val) = Len(doc.Authenticators)
            /\ \A i \in 1..Len(adLoaded.val) :
                  adLoaded.val[i].meta.tags
                     = NamesByRows(doc.AuthenticatorCategories,
                                   adLoaded.val[i].secret, doc.Categories)

\* Rows c2, c9, c1 for one secret and none for the other: the first account
\* is tagged in row order, the second not at all.
C21_Witness ==
    /\ AuthproImported
    /\ Len(adLoaded.val) = 2
    /\ Len(AuthproDocOf(adCall.file).AuthenticatorCategories) = 3
    /\ AuthproDocOf(adCall.file).AuthenticatorCategories[1].CategoryId = "c2"
    /\ adLoaded.val[1].meta.tags = << "Tag 2", "Tag 1" >>
    /\ adLoaded.val[2].meta.tags = << >>

\* An Authenticator Pro backup was handed to load, and whether load got to
\* its JSON: a plain file read without a password, or an encrypted one
\* opened by its password.
AuthproOpened == adCall.adapter = "authpro" /\ adLoaded # Pending

AuthproRead ==
    IF adCall.password.some
    THEN authpro_decrypt(adCall.file, adCall.password.val).kind = "ok"
    ELSE ~adCall.file.enc

\* The positions of the authenticators of type 3 (mOTP) in the backup.
MotpAt ==
    LET auths == AuthproDocOf(adCall.file).Authenticators
    IN  { i \in 1..Len(auths) : auths[i].Type = 3 }

UnsupportedOtpType == Err([tag |-> "UnsupportedOtpType", ty |-> "Motp"])

\* C22: an Authenticator Pro backup with an mOTP authenticator at any
\* position makes load return UnsupportedOtpType and no accounts; a backup
\* of Hotp, Totp and Steam authenticators alone never gives that error and
\* is imported whole.
C22_MotpUnsupported ==
    AuthproOpened =>
        /\ AuthproRead /\ MotpAt # {} => adLoaded = UnsupportedOtpType
        /\ AuthproRead /\ MotpAt = {} =>
              /\ adLoaded.kind = "ok"
              /\ Len(adLoaded.val)
                    = Len(AuthproDocOf(adCall.file).Authenticators)
        /\ adLoaded = UnsupportedOtpType => AuthproRead /\ MotpAt # {}
        /\ adLoaded.kind = "err" /\ MotpAt = {} =>
              adLoaded.err.tag # "UnsupportedOtpType"

\* The mOTP authenticator comes last, after one that converts.
C22_Witness ==
    /\ AuthproOpened
    /\ MotpAt = {2}
    /\ adLoaded = UnsupportedOtpType

\* The mOTP authenticator comes first.
C22_WitnessFirst ==
    /\ AuthproOpened
    /\ MotpAt = {1}
    /\ Len(AuthproDocOf(adCall.file).Authenticators) = 2
    /\ adLoaded = UnsupportedOtpType

\* A file was handed to the decrypt of andOTP or AuthPro.
BinaryOpened ==
    /\ adCall.adapter \in {"andotp", "authpro"}
    /\ adCall.password.some
    /\ adLoaded # Pending

\* The fixed prefix of the envelope: 4 + 12 + 12 bytes, or 16 + 20 + 16.
PrefixLen == IF adCall.adapter = "andotp" THEN 28 ELSE 52

\* C19: andOTP and AuthPro report InputTooShort exactly when the envelope is
\* shorter than its fixed prefix of 28 or 52 bytes; an envelope of the
\* length of the prefix or longer goes on to the crypto step.
C19_TooShortBelowPrefix ==
    BinaryOpened =>
        (adLoaded = Err([tag |-> "InputTooShort"])
            <=> adCall.file.len < PrefixLen)

-----------------------------------------------------------------------------
(* Claims about the program in use (checked under SpecTui)                 *)

\* The code an account is given when the HMAC runs under the algorithm the
\* account stores.
CodeUnder(acc, clock, build) ==
    generate(acc.algorithm, acc.secret, acc.otp, Some(acc.digits), clock, build)

ShowFound == shown.kind = "ok" /\ shown.found.some

DialogOpen ==
    /\ tui.status = "running"
    /\ tui.showing = "Code"
    /\ tui.list_state.selection < Len(tui.accounts)

Copied == tui.status \in {"running", "quit"} /\ tui.clipboard.some

\* C9: whenever the show command, the show dialog or the copy to the
\* clipboard produces a code for an account, the code is the one computed
\* with the HMAC of that account's algorithm field.
C9_AccountAlgorithmUsed ==
    /\ ShowFound =>
          LET code == CodeUnder(tui.accounts[shown.found.val], tui.clock,
                                tui.build)
          IN  code.kind = "ok" /\ shown.code = Display(code.val)
    /\ DialogOpen =>
          LET code == CodeUnder(tui.accounts[tui.list_state.selection + 1],
                                tui.clock, tui.build)
          IN  code.kind = "ok" /\ tui.otp_code = Display(code.val)
    /\ Copied =>
          LET code == CodeUnder(tui.accounts[tui.copied], tui.copied_at,
                                tui.build)
          IN  code.kind = "ok" /\ tui.clipboard.val = Display(code.val)

\* A step that produces a code for account i: the show command finds it, the
\* show dialog opens on it, or its code is copied to the clipboard.
Uses(i) ==
    \/ ShowCmd /\ shown'.kind = "ok" /\ shown'.found = Some(i)
    \/ /\ KeyShow
       /\ tui'.status = "running"
       /\ tui'.showing = "Code"
       /\ tui.list_state.selection + 1 = i
    \/ /\ KeyCopy
       /\ tui'.status = "running"
       /\ tui.list_state.selection + 1 = i

\* C10: after the program produces a code for an Hotp account (show command,
\* show dialog or copy), that account's counter is one higher than before.
C10_HotpCounterIncremented ==
    [][\A i \in 1..Len(tui.accounts) :
          (Uses(i) /\ tui.accounts[i].otp.type = "Hotp") =>
              tui'.accounts[i].otp.counter = tui.accounts[i].otp.counter + 1]_vars

-----------------------------------------------------------------------------
(* Claims about the URI parser (checked under SpecUrl)                      *)

Parsed == urlRet.kind = "ok"

\* The raw text of a query parameter of the text drawn, if it is there.
UrlParam(key) ==
    LET query == IF urlCall.query.some THEN urlCall.query.val ELSE << >>
        hits == { i \in 1..Len(query) : query[i][1] = key }
    IN  IF hits = {} THEN None
        ELSE Some(query[CHOOSE i \in hits : \A k \in hits : i <= k][2])

DefaultDigitsOf(type) == IF type = "Steam" THEN 5 ELSE 6

\* C13: without a digit count the count is 6 for HOTP and TOTP and 5 for
\* Steam, in the parser (no digits parameter) and in generate (digits =
\* None); a digit count that is supplied is used as it is.
C13_DigitsDefault ==
    /\ (Parsed /\ ~UrlParam("digits").some) =>
          urlRet.val.digits = DefaultDigitsOf(urlRet.val.otp.type)
    /\ (Parsed /\ UrlParam("digits").some) =>
          urlRet.val.digits = DecimalValue(UrlParam("digits").val)
    /\ (urlCode # Pending /\ urlCode.ret.kind = "ok") =>
          urlCode.ret.val.digits =
              IF urlCode.digits.some THEN urlCode.digits.val
              ELSE DefaultDigitsOf(urlRet.val.otp.type)

C13_Witness ==
    /\ urlCall.authority = Some(<< "S", "t", "e", "a", "m" >>)
    /\ ~UrlParam("digits").some
    /\ Parsed
    /\ urlRet.val.otp = Steam(30)
    /\ urlRet.val.digits = 5
    /\ urlCode # Pending
    /\ urlCode.digits = None
    /\ urlCode.ret.kind = "ok"
    /\ urlCode.ret.val.digits = 5
    /\ Len(urlCode.ret.val.code) = 5

\* A supplied count that differs from the default of its type.
C13_WitnessSupplied ==
    /\ urlCall.authority = Some(<< "t", "o", "t", "p" >>)
    /\ UrlParam("digits") = Some(<< "8" >>)
    /\ Parsed
    /\ urlRet.val.digits = 8
    /\ urlCode # Pending
    /\ urlCode.digits = Some(8)
    /\ urlCode.ret.kind = "ok"
    /\ Len(Display(urlCode.ret.val)) = 8

\* The text drawn is a URL for the url crate.
WellFormed == UrlParse(urlCall).kind = "ok"

SchemeIsOtpauth == ToLowercase(urlCall.scheme) = OTPAUTH

HostGiven == urlCall.authority.some /\ urlCall.authority.val # << >>

HostIsOtpType ==
    ToLowercase(urlCall.authority.val) \in
        { << "h", "o", "t", "p" >>, << "t", "o", "t", "p" >>,
          << "s", "t", "e", "a", "m" >> }

Rejected(e) ==
    /\ urlRet.kind = "err"
    /\ urlRet.err = e
    /\ urlRet.reads \cap {"query", "path"} = {}

\* C15: for a URL, parsing rejects in this order: a scheme other than
\* otpauth is InvalidScheme; else no host is MissingHost; else a host that is
\* not hotp, totp or steam in any case of letters is InvalidHost; on each of
\* them neither query nor path was looked at and no account is returned; a
\* URL that passes the three checks fails with none of these errors.
C15_RejectionOrder ==
    (WellFormed /\ urlRet # Pending) =>
        /\ ~SchemeIsOtpauth => Rejected("InvalidScheme")
        /\ (SchemeIsOtpauth /\ ~HostGiven) => Rejected("MissingHost")
        /\ (SchemeIsOtpauth /\ HostGiven /\ ~HostIsOtpType) =>
              Rejected("InvalidHost")
        /\ (SchemeIsOtpauth /\ HostGiven /\ HostIsOtpType) =>
              \/ Parsed
              \/ urlRet.err \in {"Deserialize", "InvalidUtf8"}

\* A wrong scheme before an unknown host, a bad query and a bad path.
C15_Witness ==
    /\ urlCall.scheme = << "h", "t", "t", "p" >>
    /\ urlCall.authority = Some(<< "m", "o", "t", "p" >>)
    /\ urlCall.path = << "/", "%", "F", "F" >>
    /\ urlCall.query = Some(<< << "digits", << "8" >> >> >>)
    /\ Rejected("InvalidScheme")

\* An unknown host before a bad query, and a known one in capitals.
C15_WitnessHost ==
    \/ /\ urlCall.scheme = OTPAUTH
       /\ urlCall.authority = Some(<< "m", "o", "t", "p" >>)
       /\ urlCall.query = Some(<< << "digits", << "8" >> >> >>)
       /\ Rejected("InvalidHost")
    \/ /\ urlCall.scheme = OTPAUTH
       /\ urlCall.authority = Some(<< "T", "O", "T", "P" >>)
       /\ Parsed

\* The path of the text drawn without its leading '/', percent-decoded.
DecodedPath ==
    LET path == urlCall.path
    IN  DecodeUtf8(PercentDecode(
            IF path # << >> /\ path[1] = "/" THEN Tail(path) ELSE path)).val

FirstColon(text, i) ==
    /\ i \in 1..Len(text)
    /\ text[i] = ":"
    /\ \A k \in 1..(i - 1) : text[k] # ":"

C16_WitnessColons ==
    \/ /\ urlCall.path = << "/", "a", ":", "b", ":", "c" >>
       /\ ~UrlParam("issuer").some
       /\ Parsed
       /\ urlRet.val.issuer = Some(<< "a" >>)
       /\ urlRet.val.label = << "b", ":", "c" >>
    \/ /\ urlCall.path = << "/", "a", "%", "3", "A", "b" >>
       /\ ~UrlParam("issuer").some
       /\ Parsed
       /\ urlRet.val.issuer = Some(<< "a" >>)
       /\ urlRet.val.label = << "b" >>
    \/ /\ urlCall.path = << "/", "a", ":", "b", ":", "c" >>
       /\ UrlParam("issuer") = Some(<< "Q", "+", "R", "%", "2", "1" >>)
       /\ Parsed
       /\ urlRet.val.issuer = Some(<< "Q", " ", "R", "!" >>)
       /\ urlRet.val.label = << "b", ":", "c" >>

-----------------------------------------------------------------------------
(* Claims about the secret key holder (checked under SpecKey)              *)

AllZero(mem) == \A i \in 1..Len(mem) : mem[i] = 0

\* C23: when a key is destroyed (its account list dropped on return, a
\* failed import, a replaced value) its buffer goes back to the allocator
\* with every byte zero and as long as it was; and the bytes are read only
\* through expose_secret, of a key that is alive, as they are.
C23_KeyZeroedOnDrop ==
    [][/\ \A b \in Keys :
             keyBuf'[b].life = "released" =>
                 /\ AllZero(keyBuf'[b].mem)
                 /\ keyBuf[b].life = "alive" =>
                       Len(keyBuf'[b].mem) = Len(keyBuf[b].mem)
       /\ keySeen' # keySeen =>
             /\ keySeen'.via = "expose_secret"
             /\ keyBuf[keySeen'.key].life = "alive"
             /\ keySeen'.bytes = keyBuf[keySeen'.key].mem
      ]_vars

\* The key of the secret 0, 255, 1 was destroyed on each of the three paths.
C23_Witness ==
    \E b \in Keys :
       /\ keyBuf[b].life = "released"
       /\ keyBuf[b].why = "exit"
       /\ keyBuf[b].mem = << 0, 0, 0 >>

C23_WitnessFailedImport ==
    \E b \in Keys :
       /\ keyBuf[b].life = "released"
       /\ keyBuf[b].why = "failed import"
       /\ keyBuf[b].mem = << 0, 0, 0 >>

C23_WitnessReplaced ==
    \E b \in Keys :
       /\ keyBuf[b].life = "released"
       /\ keyBuf[b].why = "replaced"
       /\ keyBuf[b].mem = << 0, 0, 0 >>

-----------------------------------------------------------------------------
(* Claims about the module aead.rs (checked under SpecAead)                *)

\* C24: for every key and every data d, seal returns a blob of len(d) + 24
\* + 16 bytes laid out as nonce || ciphertext || tag, in which the
\* ciphertext is the encryption of d under that nonce and the tag
\* authenticates exactly that ciphertext, so that open with the same key
\* returns d.
C24_SealedBlobOpens ==
    aeadBlob.kind = "ok" =>
        LET d == aeadCall.data
            key == aeadCall.key.id
            blob == aeadBlob.val
            nonce == blob[1].nonce
            ciphertext == SubSeq(blob, 24 + 1, 24 + Len(d))
        IN  /\ Len(blob) = Len(d) + 24 + 16
            /\ SubSeq(blob, 1, 24) = NonceBytes(nonce)
            /\ ciphertext = [i \in 1..Len(d) |-> CipherByte(key, nonce, i, d[i])]
            /\ SubSeq(blob, 24 + Len(d) + 1, Len(blob))
                  = Poly1305(key, nonce, ciphertext)
            /\ (/\ aeadOpened # Pending
                /\ aeadOpened.key = aeadCall.key
                /\ aeadOpened.take = "all") => aeadOpened.ret = Ok(d)

-----------------------------------------------------------------------------
(* Claims about the dialogs and the list of the interface (checked under   *)
(* SpecTui)                                                                *)

Dialogs == {"None", "Help", "Code"}

Selected(t) == t.list_state.selection + 1

\* C25: one dialog at most shows (None, Help or Code); 'h' hides the help
\* dialog when it shows and shows it otherwise, in place of the code dialog
\* too, and 's' does the same for the code dialog; every other key, a tick
\* of the timer and a resize leave the dialog as it is; and the code dialog
\* shows the code generated for the account selected in the list.
C25_DialogState ==
    [][/\ tui'.showing \in Dialogs
       /\ KeyHelp =>
             tui'.showing = (IF tui.showing = "Help" THEN "None" ELSE "Help")
       /\ KeyShow =>
             tui'.showing = (IF tui.showing = "Code" THEN "None" ELSE "Code")
       /\ (\/ Tick \/ Resize \/ KeyQuit \/ KeyUp \/ KeyDown \/ KeyCopy
           \/ KeyOther) => tui'.showing = tui.showing
       /\ (/\ tui'.status = "running"
           /\ tui'.showing = "Code"
           /\ Selected(tui') <= Len(tui'.accounts)) =>
             LET code == CodeFor(tui'.accounts[Selected(tui')], tui'.clock,
                                 tui'.build)
             IN  code.kind = "ok" /\ tui'.otp_code = Display(code.val)
      ]_vars

\* A second later the code dialog shows the code of the second account.
C25_Witness ==
    /\ tui.status = "running"
    /\ tui.showing = "Code"
    /\ tui.ticks >= 1
    /\ Len(tui.accounts) = 2
    /\ Selected(tui) = 2
    /\ tui.otp_code = Display(CodeFor(tui.accounts[2], tui.clock,
                                      tui.build).val)

\* The help dialog shows over a list scrolled to its second account.
C25_WitnessHelp ==
    /\ tui.status = "running"
    /\ tui.showing = "Help"
    /\ Selected(tui) = 2
    /\ tui.otp_code = << >>

\* C26: from selection 0, after any up and down keys the selection is an
\* index of the list when the list has accounts; up at the first and down at
\* the last account change nothing; and with no account up and down leave
\* the selection at 0 and raise no arithmetic fault.
C26_SelectionInBounds ==
    [][/\ (tui'.status = "running" /\ Len(tui'.accounts) > 0) =>
             tui'.list_state.selection <= Len(tui'.accounts) - 1
       /\ (KeyUp /\ tui.list_state.selection = 0) =>
             tui'.list_state.selection = 0
       /\ (KeyDown /\ Selected(tui) = Len(tui.accounts)) =>
             tui'.list_state.selection = tui.list_state.selection
       /\ ((KeyUp \/ KeyDown) /\ Len(tui.accounts) = 0) =>
             /\ tui'.status = "running"
             /\ tui'.list_state.selection = 0
      ]_vars

\* C27: drawing the list and its bar raises no arithmetic fault for a list
\* of one account or more, whatever the area: the divisor of the bar is not
\* zero, and the start and the end of the bar lie inside the area.
C27_RenderNoFault ==
    [][/\ (Run /\ Len(tui.accounts) >= 1) => tui'.status = "running"
       /\ (tui'.status = "running" /\ Len(tui'.accounts) >= 1) =>
             LET bar == ScrollBarRender(tui'.list_state.selection,
                                        Len(tui'.accounts) - 1, tui'.height)
             IN  /\ bar.kind = "ok"
                 /\ bar.val.start + bar.val.bar_height <= tui'.height
      ]_vars

\* C28: whatever the selection, the scroll position before and the height
\* of the area (heights below the 4 rows of an item too), update_scroll_pos
\* ends, and after it scroll_pos <= selection; in an area of 4 rows or more
\* the selected item lies wholly inside, (selection + 1 - scroll_pos) * 4 <=
\* height.
C28_ScrollPosUpdated ==
    [][(tui'.status = "running" /\ ~Resize) =>
          LET state == tui'.list_state
          IN  /\ state.scroll_pos <= state.selection
              /\ tui'.height >= LIST_ITEM_HEIGHT =>
                    (state.selection + 1 - state.scroll_pos) * LIST_ITEM_HEIGHT
                        <= tui'.height
      ]_vars

\* In an area of 2 rows the list is scrolled to the selected second account.
C28_Witness ==
    /\ tui.status = "running"
    /\ tui.height = 2
    /\ tui.list_state = [selection |-> 1, scroll_pos |-> 1]

\* In an area of 4 rows, one item, likewise; in 9 rows nothing is scrolled.
C28_WitnessOneItem ==
    /\ tui.status = "running"
    /\ tui.height = 4
    /\ tui.list_state = [selection |-> 1, scroll_pos |-> 1]

C28_WitnessTwoItems ==
    /\ tui.status = "running"
    /\ tui.height = 9
    /\ tui.list_state = [selection |-> 1, scroll_pos |-> 0]

-----------------------------------------------------------------------------
(* Claims about the import command (checked under SpecImport)              *)

Consented(i) == i.reply \in {Some("y"), Some("Y")}

Asked(i) ==
    \E n \in 1..Len(i.out) : i.out[n] = << "Overwrite? [yN] " >>

\* C29: import does not overwrite a store without consent: with a store
\* there and a reply other than y or Y it returns without a call of seal and
\* the store file is as before; the backup is read and decoded before the
\* question is put, so a backup that does not load leaves the store as it
\* was too.
C29_NoOverwriteWithoutConsent ==
    [][/\ (imp'.seals # imp.seals \/ imp'.file # imp.file) =>
             /\ imp.backup.kind = "backup"
             /\ imp.before.some => Consented(imp)
       /\ (imp'.pc = "done" /\ imp'.reply.some /\ ~Consented(imp')) =>
             /\ imp'.ret = Ok("unit")
             /\ imp'.seals = 0
             /\ imp'.file = imp'.before
       /\ (Asked(imp') /\ ~Asked(imp)) =>
             /\ imp.backup.kind = "backup"
             /\ imp.out = << << "Opened backup file" >> >>
       /\ (imp'.pc = "done" /\ imp'.backup.kind # "backup") =>
             /\ imp'.ret.kind = "err"
             /\ imp'.seals = 0
             /\ imp'.file = imp'.before
             /\ ~Asked(imp')
      ]_vars

\* The store of an earlier import was there, the reply was "yes", and the
\* command ended with the store as it was.
C29_Witness ==
    /\ imp.pc = "done"
    /\ imp.before = Some([from |-> "earlier", accounts |-> 1])
    /\ imp.reply = Some("yes")
    /\ imp.ret = Ok("unit")
    /\ imp.seals = 0
    /\ imp.file = imp.before
    /\ imp.out[Len(imp.out)] = << "Import cancelled" >>

\* With "Y" the store was replaced by the two accounts of the backup.
C29_WitnessConsent ==
    /\ imp.pc = "done"
    /\ imp.before.some
    /\ imp.reply = Some("Y")
    /\ imp.seals = 1
    /\ imp.file = Some([from |-> "import", accounts |-> 2])

\* A backup that did not load, with a store there.
C29_WitnessRejected ==
    /\ imp.pc = "done"
    /\ imp.backup.kind = "rejected"
    /\ imp.before.some
    /\ imp.file = imp.before

-----------------------------------------------------------------------------
(* Claims about the hand-over of key events (checked under SpecChan)       *)

IsPrefix(short, long) ==
    /\ Len(short) <= Len(long)
    /\ SubSeq(long, 1, Len(short)) = short

\* C30: every key event the listener read reaches the loop once at most and
\* in the order read; events that are no keys are not delivered; the
\* listener reads no further terminal event before the loop took the key
\* it holds; a tick handled in between does not discard a key that waits;
\* and with the receiver dropped the listener stops at its next key event.
C30_KeyEventHandOver ==
    [][/\ IsPrefix(mainLoop'.got, listener'.sent)
       /\ \A n \in 1..Len(listener'.sent) :
             /\ listener'.sent[n].event.kind = "key"
             /\ \A m \in 1..Len(listener'.sent) :
                   n < m => listener'.sent[n].at < listener'.sent[m].at
       /\ termQueue' # termQueue =>
             /\ listener.holds = None
             /\ mainLoop.got = listener.sent
       /\ MainTick =>
             /\ listener' = listener
             /\ IsPrefix(mainLoop.got, listener.sent)
             /\ mainLoop'.got = mainLoop.got
             /\ termQueue' = termQueue
       /\ mainLoop.rx = "dropped" =>
             /\ Len(listener'.sent) <= Len(mainLoop'.got) + 1
             /\ listener.pc = "send" => listener'.pc \in {"send", "stopped"}
             /\ listener.pc = "stopped" => listener' = listener
             /\ mainLoop'.got = mainLoop.got
      ]_vars

\* The third event, a key behind an event that was no key, waited through
\* a tick and was taken after it.
C30_Witness ==
    /\ mainLoop.passed # << >>
    /\ mainLoop.passed[1].at = 3
    /\ Len(mainLoop.got) = 2
    /\ mainLoop.got[1].at = 1
    /\ mainLoop.got[2] = mainLoop.passed[1]
    /\ listener.pc = "read"

\* The loop ended on 'q', and the listener stopped at the key after it.
C30_WitnessStopped ==
    /\ mainLoop.rx = "dropped"
    /\ listener.pc = "stopped"
    /\ Len(listener.sent) = Len(mainLoop.got) + 1
    /\ termQueue # << >>

=============================================================================
